---------------------------- MODULE Spec2Model ----------------------------
(***************************************************************************)
(* A model of the cache subsystem of src/src/core/cache_manager.py:        *)
(* CacheEntry, Cache (get / put / remove / clear and the eviction pass)    *)
(* and CacheManager: the registry of named caches, get / put forwarded to  *)
(* a named cache, create_cache, get_total_memory and the periodic sweep of *)
(* expired entries that update() runs.                                     *)
(*                                                                         *)
(* Time is the value time.time() returns, in whole ticks; it is read once  *)
(* per operation and never decreases.  Several operations may read the     *)
(* same tick.                                                              *)
(***************************************************************************)
EXTENDS Integers, Sequences, FiniteSets, TLC

VARIABLES
    caches,   \* name -> Cache object (its configuration and its fields)
    now,      \* the clock, time.time()
    last,     \* the operation that just returned: its arguments and result
    pc,       \* position inside a put in progress (step-wise runs), else "idle"
    pend,     \* the put in progress: target, key, new entry, loop bookkeeping
    manager,  \* the CacheManager's own fields: _last_gc_time
    gets,     \* name -> get calls made on the cache since it was created or
              \* last cleared (history, not a field of the program)
    level     \* the Level object of the game scene: its id and its layers

vars == <<caches, now, last, pc, pend, manager, gets, level>>

-----------------------------------------------------------------------------
(* Bounds of the model.                                                    *)

\* The clock runs over 0..MaxTime.
MaxTime == 2

\* At most MaxGets get calls are counted by a cache between two clears.
MaxGets == 1

\* A step-wise put gives up after MaxIters iterations of one loop.
MaxIters == 3

-----------------------------------------------------------------------------
(* Values and their estimated size.                                        *)

\* Optional[...] = None for a ttl.
None == -1

\* bytes per pixel of a Surface (RGBA)
BytesPerPixel == 4

\* estimate per sprite of a Group, and the estimate of any other value
SpriteSize == 64

DefaultSize == 64

\* A value: a pg.Surface (w, h), a pg.sprite.Group (n sprites), a list or
\* tuple (items), a dict (items: its keys and values in turn), anything else.
Val(kind, id, w, h, n, items) ==
    [kind |-> kind, id |-> id, w |-> w, h |-> h, n |-> n, items |-> items]

Other(id) == Val("other", id, 0, 0, 0, <<>>)

Surface(w, h) == Val("surface", 0, w, h, 0, <<>>)

Group(n) == Val("group", 0, 0, 0, n, <<>>)

List(items) == Val("list", 0, 0, 0, 0, items)

Dict(items) == Val("dict", 0, 0, 0, 0, items)

\* The default a get returns on a miss (default=None).
NoValue == Val("none", 0, 0, 0, 0, <<>>)

RECURSIVE EstimateSize(_)
EstimateSize(value) ==
    LET SumItems[i \in 0..Len(value.items)] ==
            IF i = 0 THEN 0
            ELSE SumItems[i - 1] + EstimateSize(value.items[i])
    IN  CASE value.kind = "surface" -> value.w * value.h * BytesPerPixel
          [] value.kind = "group"   -> value.n * SpriteSize
          [] value.kind = "list"    -> SumItems[Len(value.items)]
          [] value.kind = "dict"    -> SumItems[Len(value.items)]
          [] OTHER                  -> DefaultSize

-----------------------------------------------------------------------------
(* CacheEntry                                                              *)

CacheEntry(key, value, ttl, t) ==
    [key |-> key, value |-> value, created_at |-> t, last_accessed |-> t,
     access_count |-> 0, ttl |-> ttl, size |-> EstimateSize(value)]

\* an access that also starts the entry's time to live again
Access_RestartsTimeToLive(entry, t) ==
    [entry EXCEPT !.last_accessed = t, !.access_count = @ + 1,
                  !.created_at = t]

\* access()
Access(entry, t) ==
    [entry EXCEPT !.last_accessed = t, !.access_count = @ + 1]

\* an expiry test that counts the ttl from the last read of the entry
IsExpired_SinceLastAccess(entry, t) ==
    entry.ttl # None /\ t - entry.last_accessed > entry.ttl

IsExpired(entry, t) ==
    IF entry.ttl = None THEN FALSE ELSE t - entry.created_at > entry.ttl

-----------------------------------------------------------------------------
(* Cache: the OrderedDict _entries is the sequence entries, first item     *)
(* first; a key occurs at most once in it.                                 *)

NewCache(name, max_size, max_memory, policy, ttl) ==
    [name |-> name, max_size |-> max_size, max_memory |-> max_memory,
     policy |-> policy, default_ttl |-> ttl,
     entries |-> <<>>, total_memory |-> 0, hits |-> 0, misses |-> 0]

KeysOf(c) == {c.entries[i].key : i \in 1..Len(c.entries)}

HasKey(c, key) == key \in KeysOf(c)

\* position of key in the order, 0 when absent
IndexOf(c, key) ==
    IF HasKey(c, key)
    THEN CHOOSE i \in 1..Len(c.entries) : c.entries[i].key = key
    ELSE 0

EntryOf(c, key) == c.entries[IndexOf(c, key)]

WithoutIndex(s, i) == [j \in 1..(Len(s) - 1) |-> IF j < i THEN s[j] ELSE s[j + 1]]

\* remove that forgets to subtract the entry's size
CacheRemove_KeepsMemory(c, key) ==
    IF HasKey(c, key)
    THEN [cache |-> [c EXCEPT !.entries = WithoutIndex(@, IndexOf(c, key))],
          ret |-> TRUE]
    ELSE [cache |-> c, ret |-> FALSE]

\* remove that reports success whether or not the key was there
CacheRemove_AlwaysTrue(c, key) ==
    IF HasKey(c, key)
    THEN [cache |-> [c EXCEPT !.entries = WithoutIndex(@, IndexOf(c, key)),
                              !.total_memory = @ - EntryOf(c, key).size],
          ret |-> TRUE]
    ELSE [cache |-> c, ret |-> TRUE]

\* remove(key): pop the entry, subtract its size; the result says whether
\* anything was removed.
CacheRemove(c, key) ==
    IF HasKey(c, key)
    THEN [cache |-> [c EXCEPT !.entries = WithoutIndex(@, IndexOf(c, key)),
                              !.total_memory = @ - EntryOf(c, key).size],
          ret |-> TRUE]
    ELSE [cache |-> c, ret |-> FALSE]

\* get without the is_expired() check
CacheGet_NoExpiryCheck(c, key, default, t) ==
    IF ~HasKey(c, key)
    THEN [cache |-> [c EXCEPT !.misses = @ + 1], ret |-> default]
    ELSE LET i == IndexOf(c, key)
             e == Access(c.entries[i], t)
         IN  [cache |-> [c EXCEPT !.hits = @ + 1,
                                  !.entries =
                                      IF c.policy = "lru"
                                      THEN Append(WithoutIndex(@, i), e)
                                      ELSE [@ EXCEPT ![i] = e]],
              ret |-> e.value]

\* get that never moves the entry to the end
CacheGet_NeverMovesToEnd(c, key, default, t) ==
    IF ~HasKey(c, key)
    THEN [cache |-> [c EXCEPT !.misses = @ + 1], ret |-> default]
    ELSE IF IsExpired(EntryOf(c, key), t)
    THEN [cache |-> [CacheRemove(c, key).cache EXCEPT !.misses = @ + 1],
          ret |-> default]
    ELSE LET i == IndexOf(c, key)
             e == Access(c.entries[i], t)
         IN  [cache |-> [c EXCEPT !.hits = @ + 1,
                                  !.entries = [@ EXCEPT ![i] = e]],
              ret |-> e.value]

\* get that moves the entry to the end whatever the policy
CacheGet_AlwaysMovesToEnd(c, key, default, t) ==
    IF ~HasKey(c, key)
    THEN [cache |-> [c EXCEPT !.misses = @ + 1], ret |-> default]
    ELSE IF IsExpired(EntryOf(c, key), t)
    THEN [cache |-> [CacheRemove(c, key).cache EXCEPT !.misses = @ + 1],
          ret |-> default]
    ELSE LET i == IndexOf(c, key)
             e == Access(c.entries[i], t)
         IN  [cache |-> [c EXCEPT !.hits = @ + 1,
                                  !.entries = Append(WithoutIndex(@, i), e)],
              ret |-> e.value]

\* get that counts the miss of an expired entry twice: once where it finds
\* the entry expired, once more as for an absent key
CacheGet_ExpiredCountsTwice(c, key, default, t) ==
    IF ~HasKey(c, key)
    THEN [cache |-> [c EXCEPT !.misses = @ + 1], ret |-> default]
    ELSE IF IsExpired(EntryOf(c, key), t)
    THEN [cache |-> [CacheRemove(c, key).cache EXCEPT !.misses = @ + 2],
          ret |-> default]
    ELSE LET i == IndexOf(c, key)
             e == Access(c.entries[i], t)
         IN  [cache |-> [c EXCEPT !.hits = @ + 1,
                                  !.entries =
                                      IF c.policy = "lru"
                                      THEN Append(WithoutIndex(@, i), e)
                                      ELSE [@ EXCEPT ![i] = e]],
              ret |-> e.value]

\* get(key, default)
CacheGet(c, key, default, t) ==
    IF ~HasKey(c, key)
    THEN [cache |-> [c EXCEPT !.misses = @ + 1], ret |-> default]
    ELSE IF IsExpired(EntryOf(c, key), t)
    THEN [cache |-> [CacheRemove(c, key).cache EXCEPT !.misses = @ + 1],
          ret |-> default]
    ELSE LET i == IndexOf(c, key)
             e == Access(c.entries[i], t)
         IN  [cache |-> [c EXCEPT !.hits = @ + 1,
                                  !.entries =
                                      IF c.policy = "lru"
                                      THEN Append(WithoutIndex(@, i), e)
                                      ELSE [@ EXCEPT ![i] = e]],
              ret |-> e.value]

\* _evict_expired(): remove every entry that is expired at t
EvictExpired(c, t) ==
    LET keep(e) == ~IsExpired(e, t)
        gone[i \in 0..Len(c.entries)] ==
            IF i = 0 THEN 0
            ELSE gone[i - 1]
                 + (IF IsExpired(c.entries[i], t) THEN c.entries[i].size ELSE 0)
    IN  [c EXCEPT !.entries = SelectSeq(@, keep),
                  !.total_memory = @ - gone[Len(c.entries)]]

\* a minimum search that keeps the last minimum it meets
LfuVictim_LastMinimum(c) ==
    LET n == Len(c.entries)
        i == CHOOSE i \in 1..n :
                 /\ \A j \in 1..n : c.entries[i].access_count <= c.entries[j].access_count
                 /\ \A j \in (i + 1)..n : c.entries[j].access_count > c.entries[i].access_count
    IN  c.entries[i].key

\* min(keys, key=access_count): the first key, in iteration order, whose
\* access_count is the minimum
LfuVictim(c) ==
    LET n == Len(c.entries)
        i == CHOOSE i \in 1..n :
                 /\ \A j \in 1..n : c.entries[i].access_count <= c.entries[j].access_count
                 /\ \A j \in 1..(i - 1) : c.entries[j].access_count > c.entries[i].access_count
    IN  c.entries[i].key

\* a default branch that removes the newest entry
VictimKey_DefaultNewest(c) ==
    IF c.policy = "lru" THEN c.entries[1].key
    ELSE IF c.policy = "lfu" THEN LfuVictim(c)
    ELSE IF c.policy = "fifo" THEN c.entries[1].key
    ELSE c.entries[Len(c.entries)].key

\* the key _evict_one picks in a non-empty cache
VictimKey(c) ==
    IF c.policy = "lru" THEN c.entries[1].key
    ELSE IF c.policy = "lfu" THEN LfuVictim(c)
    ELSE IF c.policy = "fifo" THEN c.entries[1].key
    ELSE c.entries[1].key

\* _evict_one()
EvictOne(c) ==
    IF c.entries = <<>>
    THEN [cache |-> c, ret |-> FALSE]
    ELSE CacheRemove(c, VictimKey(c))

\* the entry-count loop with > for >=
RECURSIVE EvictBySize_OffByOne(_)
EvictBySize_OffByOne(c) ==
    IF Len(c.entries) > c.max_size
    THEN EvictBySize_OffByOne(EvictOne(c).cache)
    ELSE c

\* while len(entries) >= max_size: _evict_one()
RECURSIVE EvictBySize(_)
EvictBySize(c) ==
    IF Len(c.entries) >= c.max_size
    THEN EvictBySize(EvictOne(c).cache)
    ELSE c

\* the memory loop without the incoming size
RECURSIVE EvictByMemory_IgnoresIncoming(_, _)
EvictByMemory_IgnoresIncoming(c, new_size) ==
    IF c.total_memory > c.max_memory
    THEN LET evicted == EvictOne(c)
         IN  IF evicted.ret
             THEN EvictByMemory_IgnoresIncoming(evicted.cache, new_size)
             ELSE c
    ELSE c

\* a memory loop that evicts nothing for a size no eviction can make fit
RECURSIVE EvictByMemory_GivesUpOnOversized(_, _)
EvictByMemory_GivesUpOnOversized(c, new_size) ==
    IF new_size <= c.max_memory /\ c.total_memory + new_size > c.max_memory
    THEN LET evicted == EvictOne(c)
         IN  IF evicted.ret
             THEN EvictByMemory_GivesUpOnOversized(evicted.cache, new_size)
             ELSE c
    ELSE c

\* while total_memory + new_size > max_memory: if not _evict_one(): break
RECURSIVE EvictByMemory(_, _)
EvictByMemory(c, new_size) ==
    IF c.total_memory + new_size > c.max_memory
    THEN LET evicted == EvictOne(c)
         IN  IF evicted.ret
             THEN EvictByMemory(evicted.cache, new_size)
             ELSE c
    ELSE c

\* an eviction pass that looks for expired entries only if a limit is hit
EvictIfNeeded_SweepsOnlyWhenFull(c, new_size, t) ==
    IF Len(c.entries) >= c.max_size
       \/ c.total_memory + new_size > c.max_memory
    THEN EvictByMemory(EvictBySize(EvictExpired(c, t)), new_size)
    ELSE c

\* an eviction pass that always makes room for one more entry of the size
EvictIfNeeded_KeepsHeadroom(c, new_size, t) ==
    EvictByMemory(EvictBySize(EvictExpired(c, t)), 2 * new_size)

\* _evict_if_needed(new_size)
EvictIfNeeded(c, new_size, t) ==
    EvictByMemory(EvictBySize(EvictExpired(c, t)), new_size)

\* ttl or self.default_ttl
TtlOr(ttl, default_ttl) ==
    IF ttl = None \/ ttl = 0 THEN default_ttl ELSE ttl

\* put that leaves the key's old entry in place
PutRemoveOld_KeepsOld(c, key) == c

\* the part of put before the eviction pass: drop the key's old entry
PutRemoveOld(c, key) ==
    IF HasKey(c, key) THEN CacheRemove(c, key).cache ELSE c

\* an end of put that adds the entry at the front
PutInsert_AtFront(c, entry) ==
    [c EXCEPT !.entries = <<entry>> \o @,
              !.total_memory = @ + entry.size]

\* the end of put: add the entry at the end, add its size
PutInsert(c, entry) ==
    [c EXCEPT !.entries = Append(@, entry),
              !.total_memory = @ + entry.size]

\* put that adds the entry first and runs the eviction pass after
CachePut_InsertsBeforeEvicting(c, key, value, ttl, t) ==
    LET entry == CacheEntry(key, value, TtlOr(ttl, c.default_ttl), t)
    IN  EvictIfNeeded(PutInsert(PutRemoveOld(c, key), entry), 0, t)

\* put that runs the eviction pass while the key's old entry is still in
CachePut_EvictsBeforeRemovingOld(c, key, value, ttl, t) ==
    LET entry == CacheEntry(key, value, TtlOr(ttl, c.default_ttl), t)
    IN  PutInsert(PutRemoveOld(EvictIfNeeded(c, entry.size, t), key), entry)

\* put(key, value, ttl)
CachePut(c, key, value, ttl, t) ==
    LET entry == CacheEntry(key, value, TtlOr(ttl, c.default_ttl), t)
    IN  PutInsert(EvictIfNeeded(PutRemoveOld(c, key), entry.size, t), entry)

\* clear that leaves the counters as they are
CacheClear_KeepsCounters(c) ==
    [c EXCEPT !.entries = <<>>, !.total_memory = 0]

\* clear()
CacheClear(c) ==
    [c EXCEPT !.entries = <<>>, !.total_memory = 0, !.hits = 0, !.misses = 0]

RECURSIVE Gcd(_, _)
Gcd(a, b) == IF b = 0 THEN a ELSE Gcd(b, a % b)

\* a / b of two ints, as Python computes it: ZeroDivisionError raised if b
\* is 0, and otherwise the float of the quotient, kept as the fraction in
\* lowest terms
TrueDiv(a, b) ==
    IF b = 0 THEN [raised |-> TRUE, num |-> 0, den |-> 0]
    ELSE [raised |-> FALSE, num |-> a \div Gcd(a, b), den |-> b \div Gcd(a, b)]

\* a hit rate that divides whatever the number of requests is
HitRate_AlwaysDivides(hits, misses) == TrueDiv(hits, hits + misses)

\* get_stats(): self._hits / total_requests if total_requests > 0 else 0
HitRate(hits, misses) ==
    LET total_requests == hits + misses
    IN  IF total_requests > 0 THEN TrueDiv(hits, total_requests)
        ELSE [raised |-> FALSE, num |-> 0, den |-> 1]

\* statistics that start a new counting period when they are read
CacheGetStats_ResetsCounters(c) ==
    [cache |-> [c EXCEPT !.hits = 0, !.misses = 0],
     ret |-> [name |-> c.name, size |-> Len(c.entries),
              memory |-> c.total_memory, hits |-> c.hits,
              misses |-> c.misses, hit_rate |-> HitRate(c.hits, c.misses),
              policy |-> c.policy]]

\* get_stats(): the cache afterwards and the dictionary returned
CacheGetStats(c) ==
    [cache |-> c,
     ret |-> [name |-> c.name, size |-> Len(c.entries),
              memory |-> c.total_memory, hits |-> c.hits,
              misses |-> c.misses, hit_rate |-> HitRate(c.hits, c.misses),
              policy |-> c.policy]]

-----------------------------------------------------------------------------
(* CacheManager                                                            *)

\* _gc_interval, in seconds
GcInterval == 60

\* the manager's fields after __init__ at time t (the registry is `caches`);
\* instances counts the objects __new__ has made: _instance is None while
\* it is 0
NewManager(t) == [instances |-> 1, initialized |-> TRUE, last_gc_time |-> t]

\* the class before its first call: _instance = None
NoManager == [instances |-> 0, initialized |-> FALSE, last_gc_time |-> 0]

\* _create_default_caches(): the registry after __init__
DefaultCaches ==
    [n \in {"tile_surfaces", "animation_frames", "collision_groups",
            "level_data", "sounds"} |->
        CASE n = "tile_surfaces"    -> NewCache(n, 200, 50 * 1024 * 1024, "lru", None)
          [] n = "animation_frames" -> NewCache(n, 100, 30 * 1024 * 1024, "lfu", None)
          [] n = "collision_groups" -> NewCache(n, 10, 10 * 1024 * 1024, "lru", 5)
          [] n = "level_data"       -> NewCache(n, 5, 20 * 1024 * 1024, "lru", None)
          [] n = "sounds"           -> NewCache(n, 50, 20 * 1024 * 1024, "lfu", None)]

\* a constructor whose __init__ does not look at _initialized
Construct_InitializesAgain(m, reg, t) ==
    [manager |-> [NewManager(t) EXCEPT
                     !.instances = IF m.instances = 0 THEN 1 ELSE m.instances],
     caches |-> DefaultCaches]

\* a constructor that gives a manager without caches the default caches back
Construct_RestoresDefaults(m, reg, t) ==
    LET made == IF m.instances = 0 THEN 1 ELSE m.instances
    IN  IF m.initialized /\ DOMAIN reg # {}
        THEN [manager |-> [m EXCEPT !.instances = made], caches |-> reg]
        ELSE [manager |-> [NewManager(t) EXCEPT !.instances = made],
              caches |-> DefaultCaches]

\* CacheManager(): __new__ makes an object only while _instance is None;
\* __init__ returns at once if the object has _initialized, and otherwise
\* sets the registry to the default caches and _last_gc_time to the time
Construct(m, reg, t) ==
    LET made == IF m.instances = 0 THEN 1 ELSE m.instances
    IN  IF m.initialized
        THEN [manager |-> [m EXCEPT !.instances = made], caches |-> reg]
        ELSE [manager |-> [NewManager(t) EXCEPT !.instances = made],
              caches |-> DefaultCaches]

\* registering that keeps the cache a name already has
Registered_KeepsExisting(reg, name, cache) ==
    [n \in DOMAIN reg \cup {name} |->
        IF n \in DOMAIN reg THEN reg[n] ELSE cache]

\* self._caches[name] = cache
Registered(reg, name, cache) ==
    [n \in DOMAIN reg \cup {name} |-> IF n = name THEN cache ELSE reg[n]]

\* manager get that takes a cache with no entries for no cache
ManagerGet_EmptyCacheIsNoCache(reg, name, key, default, t) ==
    IF name \in DOMAIN reg /\ reg[name].entries # <<>>
    THEN LET got == CacheGet(reg[name], key, default, t)
         IN  [caches |-> [reg EXCEPT ![name] = got.cache], ret |-> got.ret]
    ELSE [caches |-> reg, ret |-> default]

\* a manager get that first removes the expired entries of the cache
ManagerGet_SweepsBeforeReading(reg, name, key, default, t) ==
    IF name \in DOMAIN reg
    THEN LET got == CacheGet(EvictExpired(reg[name], t), key, default, t)
         IN  [caches |-> [reg EXCEPT ![name] = got.cache], ret |-> got.ret]
    ELSE [caches |-> reg, ret |-> default]

\* CacheManager.get(cache_name, key, default): the registry afterwards and
\* the value returned
ManagerGet(reg, name, key, default, t) ==
    IF name \in DOMAIN reg
    THEN LET got == CacheGet(reg[name], key, default, t)
         IN  [caches |-> [reg EXCEPT ![name] = got.cache], ret |-> got.ret]
    ELSE [caches |-> reg, ret |-> default]

\* a put that ends with a sweep of the expired entries of every cache
ManagerPut_SweepsEveryCache(reg, name, key, value, ttl, t) ==
    IF name \in DOMAIN reg
    THEN [n \in DOMAIN reg |->
             IF n = name THEN CachePut(reg[n], key, value, ttl, t)
             ELSE EvictExpired(reg[n], t)]
    ELSE reg

\* CacheManager.put(cache_name, key, value, ttl): the registry afterwards
ManagerPut(reg, name, key, value, ttl, t) ==
    IF name \in DOMAIN reg
    THEN [reg EXCEPT ![name] = CachePut(@, key, value, ttl, t)]
    ELSE reg

\* a total over the caches the manager was constructed with only
RECURSIVE GetTotalMemory_DefaultCachesOnly(_)
GetTotalMemory_DefaultCachesOnly(reg) ==
    LET names == DOMAIN reg \cap DOMAIN DefaultCaches
    IN  IF names = {} THEN 0
        ELSE LET n == CHOOSE n \in names : TRUE
             IN  reg[n].total_memory
                 + GetTotalMemory_DefaultCachesOnly(
                       [m \in DOMAIN reg \ {n} |-> reg[m]])

\* get_total_memory(): sum(cache._total_memory for cache in _caches.values())
RECURSIVE GetTotalMemory(_)
GetTotalMemory(reg) ==
    IF DOMAIN reg = {} THEN 0
    ELSE LET n == CHOOSE n \in DOMAIN reg : TRUE
         IN  reg[n].total_memory
             + GetTotalMemory([m \in DOMAIN reg \ {n} |-> reg[m]])

\* a gate that opens as soon as the interval has elapsed
SweepDue_AtInterval(t, last_gc_time) == t - last_gc_time >= GcInterval

\* update(): current_time - self._last_gc_time > self._gc_interval
SweepDue(t, last_gc_time) == t - last_gc_time > GcInterval

\* a sweep of the caches that have a default_ttl only
RunGc_CachesWithDefaultTtlOnly(reg, t) ==
    [n \in DOMAIN reg |->
        IF reg[n].default_ttl # None THEN EvictExpired(reg[n], t) ELSE reg[n]]

\* _run_garbage_collection(): _evict_expired() on every cache (gc.collect()
\* changes no field of the manager or of a cache)
RunGc(reg, t) == [n \in DOMAIN reg |-> EvictExpired(reg[n], t)]

\* clear_cache(name): clear() on the cache of that name, if there is one
ManagerClearCache(reg, name) ==
    IF name \in DOMAIN reg
    THEN [reg EXCEPT ![name] = CacheClear(@)]
    ELSE reg

\* CacheManager.get_stats(): the registry afterwards and the dictionary
\* returned, with the get_stats() of every registered cache
ManagerGetStats(reg) ==
    [caches |-> [n \in DOMAIN reg |-> CacheGetStats(reg[n]).cache],
     ret |-> [total_memory |-> GetTotalMemory(reg),
              cache_count |-> Cardinality(DOMAIN reg),
              caches |-> [n \in DOMAIN reg |-> CacheGetStats(reg[n]).ret]]]

\* get_cache(name): self._caches.get(name), <<cache>> or <<>> for None
GetCache(reg, name) == IF name \in DOMAIN reg THEN <<reg[name]>> ELSE <<>>

\* clear_all(): cache.clear() on every registered cache
ManagerClearAll(reg) == [n \in DOMAIN reg |-> CacheClear(reg[n])]

\* a shutdown that clears the caches and keeps them registered
ManagerShutdown_ClearsOnly(reg) == ManagerClearAll(reg)

\* shutdown(): clear_all(), then self._caches.clear(): no name is registered
ManagerShutdown(reg) ==
    LET cleared == ManagerClearAll(reg)
    IN  [n \in {} |-> cleared[n]]

\* number of entries in all the caches of a registry
TotalEntries(reg) ==
    LET names == DOMAIN reg
        count[S \in SUBSET names] ==
            IF S = {} THEN 0
            ELSE LET n == CHOOSE n \in S : TRUE
                 IN  Len(reg[n].entries) + count[S \ {n}]
    IN  count[names]

\* the aggregate memory above which _run_garbage_collection calls gc.collect()
MemoryCeiling == 200 * 1024 * 1024

\* a collection forced as soon as one cache is above its own max_memory
GcCollectDue_AnyCacheAboveItsOwnCeiling(reg) ==
    \E n \in DOMAIN reg : reg[n].total_memory > reg[n].max_memory

\* _run_garbage_collection(), after the sweep: total_memory > 200 MB, on
\* which it calls gc.collect(), the interpreter's collector
GcCollectDue(reg) == GetTotalMemory(reg) > MemoryCeiling

-----------------------------------------------------------------------------
(* The caches of a run and the inputs of the operations.                   *)

Keys == {"a", "b", "c"}

\* CachePolicy.LRU / LFU / FIFO / TTL, and a string that is none of them
Policies == {"lru", "lfu", "fifo"}

\* the policies _evict_one has no branch of their own for
OtherPolicies == {"ttl", "random"}

\* 64 bytes, 36 bytes, 64 + 80 = 144 bytes
Values == {Other(1), Surface(3, 3), List(<<Surface(4, 4), Surface(4, 5)>>)}

\* the ttl argument of put: left out, the cache's default_ttl applies
Ttls == {None}

\* (max_size, max_memory) of the cache under test: three 36-byte values fit,
\* 64 + 64 bytes do not, the 144-byte value alone does not (max_size is 2)
Limits == {[max_size |-> 2, max_memory |-> 120]}

\* default_ttl of the cache under test
DefaultTtls == {None, 1}

Names == DOMAIN caches

\* what `last` holds while no operation has returned yet
NoOp ==
    [op |-> "none", name |-> "", key |-> "", value |-> NoValue, ret |-> NoValue,
     ok |-> FALSE, swept |-> 0, evicted |-> 0, collected |-> FALSE,
     stats |-> <<>>, ttl |-> None]

\* while the game scene has no Level object
NoLevel == [level_id |-> "", layers |-> <<>>]

NoPend ==
    [target |-> "", key |-> "", entry |-> CacheEntry("", NoValue, None, 0),
     iters |-> 0, evicted |-> "none"]

\* the cache whose results `last` reports
Main == caches["main"]

\* how many entries of c other than key's are expired at t
ExpiredOthers(c, key, t) ==
    Cardinality({i \in 1..Len(c.entries) :
                    c.entries[i].key # key /\ IsExpired(c.entries[i], t)})

\* how many entries of c other than key's there are
Others(c, key) == Len(c.entries) - (IF HasKey(c, key) THEN 1 ELSE 0)

-----------------------------------------------------------------------------
(* Operations, each applied to the caches named in N (one cache, or all    *)
(* the caches of a side-by-side run) and run to completion.  `last` keeps  *)
(* the call and what it did to the cache "main": what it returned, how     *)
(* many expired entries it removed (swept), how many live entries other    *)
(* than the key's own it evicted (evicted); for a put, ok tells whether    *)
(* the key was present before the call; for a remove, swept is 1 when the  *)
(* entry removed was expired; for a clear, evicted is the number of        *)
(* entries dropped and ok tells whether a counter was above zero.          *)

Put(N, key, value, ttl) ==
    /\ pc = "idle"
    /\ caches' = [n \in Names |->
                    IF n \in N THEN CachePut(caches[n], key, value, ttl, now)
                    ELSE caches[n]]
    /\ LET swept == ExpiredOthers(Main, key, now)
       IN  last' = [NoOp EXCEPT
                      !.op = "put", !.key = key, !.value = value,
                      !.ok = HasKey(Main, key),
                      !.swept = swept,
                      !.evicted = Others(Main, key) - swept
                                  - (Len(caches'["main"].entries) - 1)]
    /\ UNCHANGED <<now, pc, pend, manager, gets, level>>

Get(N, key) ==
    /\ pc = "idle"
    /\ \A n \in N : caches[n].hits + caches[n].misses < MaxGets
    /\ LET got == [n \in N |-> CacheGet(caches[n], key, NoValue, now)]
       IN  /\ caches' = [n \in Names |->
                           IF n \in N THEN got[n].cache ELSE caches[n]]
           /\ last' = [NoOp EXCEPT
                          !.op = "get", !.key = key,
                          !.ret = got["main"].ret,
                          !.swept = Len(Main.entries) - Len(got["main"].cache.entries)]
    /\ gets' = [n \in Names |-> IF n \in N THEN gets[n] + 1 ELSE gets[n]]
    /\ UNCHANGED <<now, pc, pend, manager, level>>

Remove(N, key) ==
    /\ pc = "idle"
    /\ LET removed == [n \in N |-> CacheRemove(caches[n], key)]
       IN  /\ caches' = [n \in Names |->
                           IF n \in N THEN removed[n].cache ELSE caches[n]]
           /\ last' = [NoOp EXCEPT !.op = "remove", !.key = key,
                                   !.ok = removed["main"].ret,
                                   !.swept = IF /\ HasKey(Main, key)
                                                /\ IsExpired(EntryOf(Main, key), now)
                                             THEN 1 ELSE 0]
    /\ UNCHANGED <<now, pc, pend, manager, gets, level>>

Clear(N) ==
    /\ pc = "idle"
    /\ caches' = [n \in Names |->
                    IF n \in N THEN CacheClear(caches[n]) ELSE caches[n]]
    /\ last' = [NoOp EXCEPT !.op = "clear",
                            !.evicted = Len(Main.entries),
                            !.ok = (Main.hits + Main.misses > 0)]
    /\ gets' = [n \in Names |-> IF n \in N THEN 0 ELSE gets[n]]
    /\ UNCHANGED <<now, pc, pend, manager, level>>

\* CacheManager._run_garbage_collection: _evict_expired on every cache
RunGarbageCollection ==
    /\ pc = "idle"
    /\ caches' = [n \in Names |-> EvictExpired(caches[n], now)]
    /\ last' = [NoOp EXCEPT !.op = "sweep",
                            !.swept = Len(Main.entries) - Len(caches'["main"].entries),
                            !.collected = GcCollectDue(caches')]
    /\ UNCHANGED <<now, pc, pend, manager, gets, level>>

\* the clock advances between two operations
Tick ==
    /\ pc = "idle"
    /\ now < MaxTime
    /\ now' = now + 1
    /\ last' = [NoOp EXCEPT !.op = "tick"]
    /\ UNCHANGED <<caches, pc, pend, manager, gets, level>>

-----------------------------------------------------------------------------
(* Spec: one cache, every operation run to completion.  max_size is        *)
(* positive here: with max_size <= 0 a put does not return (SpecSteps).    *)

Init ==
    /\ \E lim \in Limits, policy \in Policies, ttl \in DefaultTtls :
           caches = [n \in {"main"} |->
                       NewCache(n, lim.max_size, lim.max_memory, policy, ttl)]
    /\ now = 0
    /\ last = NoOp
    /\ pc = "idle"
    /\ pend = NoPend
    /\ manager = NewManager(0)
    /\ gets = [n \in DOMAIN caches |-> 0]
    /\ level = NoLevel

Next ==
    \/ \E k \in Keys, v \in Values, ttl \in Ttls : Put(Names, k, v, ttl)
    \/ \E k \in Keys : Get(Names, k)
    \/ \E k \in Keys : Remove(Names, k)
    \/ Clear(Names)
    \/ RunGarbageCollection
    \/ Tick

Spec == Init /\ [][Next]_vars

-----------------------------------------------------------------------------
(* SpecPair: a FIFO cache ("main"), a cache with the TTL policy and a      *)
(* cache with an unrecognised policy string, same limits, given the same   *)
(* operations side by side.                                                *)

\* the policy of each cache of a side-by-side run
PairPolicy == [main |-> "fifo", twin_ttl |-> "ttl", twin_other |-> "random"]

InitPair ==
    /\ \E lim \in Limits, ttl \in DefaultTtls :
           caches = [n \in DOMAIN PairPolicy |->
                       NewCache(n, lim.max_size, lim.max_memory, PairPolicy[n], ttl)]
    /\ now = 0
    /\ last = NoOp
    /\ pc = "idle"
    /\ pend = NoPend
    /\ manager = NewManager(0)
    /\ gets = [n \in DOMAIN caches |-> 0]
    /\ level = NoLevel

SpecPair == InitPair /\ [][Next]_vars

-----------------------------------------------------------------------------
(* SpecSteps: put run one loop iteration at a time, for any max_size,      *)
(* positive or not.                                                        *)

\* max_size of the caches of the step-wise runs
StepSizes == {0 - 1, 0, 1, 2}

\* put, up to the head of the first loop: lines 107-111 and 153
PutBegin(n, key, value, ttl) ==
    /\ pc = "idle"
    /\ caches' = [caches EXCEPT
                     ![n] = EvictExpired(PutRemoveOld(caches[n], key), now)]
    /\ pend' = [target |-> n, key |-> key,
                entry |-> CacheEntry(key, value, TtlOr(ttl, caches[n].default_ttl), now),
                iters |-> 0, evicted |-> "none"]
    /\ pc' = "size_loop"
    /\ last' = NoOp
    /\ UNCHANGED <<now, manager, gets, level>>

\* one evaluation of `while len(self._entries) >= self.max_size`, and the
\* body when it holds: _evict_one(), its result dropped
SizeLoop ==
    /\ pc = "size_loop"
    /\ LET c == caches[pend.target]
       IN  IF Len(c.entries) >= c.max_size
           THEN /\ pend.iters < MaxIters
                /\ caches' = [caches EXCEPT ![pend.target] = EvictOne(c).cache]
                /\ pend' = [pend EXCEPT
                               !.iters = @ + 1,
                               !.evicted = IF EvictOne(c).ret THEN "yes" ELSE "no"]
                /\ pc' = "size_loop"
           ELSE /\ pend' = [pend EXCEPT !.iters = 0, !.evicted = "none"]
                /\ pc' = "mem_loop"
                /\ UNCHANGED caches
    /\ UNCHANGED <<now, last, manager, gets, level>>

\* one evaluation of `while self._total_memory + new_size > self.max_memory`,
\* and the body when it holds: break if _evict_one() removed nothing
MemLoop ==
    /\ pc = "mem_loop"
    /\ LET c == caches[pend.target]
       IN  IF c.total_memory + pend.entry.size > c.max_memory
           THEN IF EvictOne(c).ret
                THEN /\ pend.iters < MaxIters
                     /\ caches' = [caches EXCEPT ![pend.target] = EvictOne(c).cache]
                     /\ pend' = [pend EXCEPT !.iters = @ + 1, !.evicted = "yes"]
                     /\ pc' = "mem_loop"
                ELSE /\ pend' = [pend EXCEPT !.evicted = "no"]
                     /\ pc' = "insert"
                     /\ UNCHANGED caches
           ELSE /\ pc' = "insert"
                /\ UNCHANGED <<caches, pend>>
    /\ UNCHANGED <<now, last, manager, gets, level>>

\* the end of put: lines 117-118
PutEnd ==
    /\ pc = "insert"
    /\ caches' = [caches EXCEPT ![pend.target] = PutInsert(@, pend.entry)]
    /\ last' = [NoOp EXCEPT !.op = "put"]
    /\ pc' = "idle"
    /\ pend' = NoPend
    /\ UNCHANGED <<now, manager, gets, level>>

InitSteps ==
    /\ \E size \in StepSizes, lim \in Limits, policy \in Policies, ttl \in DefaultTtls :
           caches = [n \in {"main"} |->
                       NewCache(n, size, lim.max_memory, policy, ttl)]
    /\ now = 0
    /\ last = NoOp
    /\ pc = "idle"
    /\ pend = NoPend
    /\ manager = NewManager(0)
    /\ gets = [n \in DOMAIN caches |-> 0]
    /\ level = NoLevel

NextSteps ==
    \/ \E k \in Keys, v \in Values, ttl \in Ttls : PutBegin("main", k, v, ttl)
    \/ SizeLoop
    \/ MemLoop
    \/ PutEnd
    \/ Tick

SpecSteps == InitSteps /\ [][NextSteps]_vars

-----------------------------------------------------------------------------
(* SpecConfig: a manager whose collaborator registers a cache "main" with  *)
(* create_cache, under any limits, and then uses it; put runs one loop     *)
(* iteration at a time.                                                    *)

\* max_memory given to create_cache
ConfigMemories == {0 - 1, 0, 120}

\* create_cache(name, max_size, max_memory, policy, ttl)
CreateCache(name, max_size, max_memory, policy, ttl) ==
    /\ pc = "idle"
    /\ caches' = Registered(caches, name,
                            NewCache(name, max_size, max_memory, policy, ttl))
    /\ gets' = [n \in DOMAIN caches' |-> IF n = name THEN 0 ELSE gets[n]]
    /\ last' = [NoOp EXCEPT
                   !.op = "create", !.name = name,
                   !.ok = (name \in Names),
                   !.evicted = IF name \in Names THEN Len(caches[name].entries)
                               ELSE 0,
                   !.swept = IF name \in Names
                             THEN caches[name].hits + caches[name].misses
                             ELSE 0]
    /\ UNCHANGED <<now, pc, pend, manager, level>>

\* the state after CacheManager()
InitManager ==
    /\ caches = DefaultCaches
    /\ now = 0
    /\ last = NoOp
    /\ pc = "idle"
    /\ pend = NoPend
    /\ manager = NewManager(0)
    /\ gets = [n \in DOMAIN caches |-> 0]
    /\ level = NoLevel

NextConfig ==
    \/ \E size \in StepSizes, memory \in ConfigMemories, policy \in Policies :
           CreateCache("main", size, memory, policy, None)
    \/ "main" \in Names /\ \E k \in Keys, v \in Values, ttl \in Ttls :
           PutBegin("main", k, v, ttl)
    \/ SizeLoop
    \/ MemLoop
    \/ PutEnd
    \/ "main" \in Names /\ \E k \in Keys : Get({"main"}, k)
    \/ "main" \in Names /\ \E k \in Keys : Remove({"main"}, k)

SpecConfig == InitManager /\ [][NextConfig]_vars

-----------------------------------------------------------------------------
(* SpecManager: the manager after construction, used through its own      *)
(* methods: get and put on a named cache, registered or not,              *)
(* create_cache of a new or of a registered name, clear_all and shutdown.  *)
(* `last` keeps the call: for a manager get, value is the default passed;  *)
(* for create_cache, ok tells whether the name was registered, evicted how *)
(* many entries its cache held and swept how many gets it had counted.     *)

\* cache names the collaborators use: a default cache, and a name that is
\* not registered until create_cache registers it
ManagerNames == {"level_data", "extra"}

\* the put calls the collaborators make: values of 64 and 36 bytes, the ttl
\* argument left out or 1 second
ManagerPuts ==
    {[name |-> "level_data", key |-> "a", value |-> Other(1), ttl |-> None],
     [name |-> "level_data", key |-> "b", value |-> Surface(3, 3), ttl |-> 1],
     [name |-> "extra", key |-> "a", value |-> Surface(3, 3), ttl |-> None]}

\* the get calls they make: the default argument left out (None), or a
\* value of the caller's
ManagerGets ==
    {[name |-> "level_data", key |-> "a", default |-> NoValue],
     [name |-> "level_data", key |-> "b", default |-> Other(0)],
     [name |-> "extra", key |-> "a", default |-> Other(0)]}

\* the policy and the default ttl given to create_cache
CreatePolicies == {"fifo"}

CreateTtls == {1}

\* a manager get, while the cache has counted fewer than `most` requests
MGetWithin(most, name, key, default) ==
    /\ pc = "idle"
    /\ name \in Names => caches[name].hits + caches[name].misses < most
    /\ LET got == ManagerGet(caches, name, key, default, now)
       IN  /\ caches' = got.caches
           /\ last' = [NoOp EXCEPT !.op = "mget", !.name = name, !.key = key,
                                   !.value = default, !.ret = got.ret]
    /\ gets' = [n \in Names |-> IF n = name THEN gets[n] + 1 ELSE gets[n]]
    /\ UNCHANGED <<now, pc, pend, manager, level>>

MGet(name, key, default) == MGetWithin(MaxGets, name, key, default)

\* a manager put; last.swept tells how many expired entries other than the
\* key's own the cache lost, last.evicted how many that had not expired,
\* last.ok whether the cache had an entry under the key
MPut(name, key, value, ttl) ==
    /\ pc = "idle"
    /\ caches' = ManagerPut(caches, name, key, value, ttl, now)
    /\ LET swept == IF name \in Names
                    THEN ExpiredOthers(caches[name], key, now) ELSE 0
       IN  last' = [NoOp EXCEPT
                      !.op = "mput", !.name = name, !.key = key,
                      !.value = value, !.ttl = ttl,
                      !.ok = name \in Names /\ HasKey(caches[name], key),
                      !.swept = swept,
                      !.evicted = IF name \in Names
                                  THEN Others(caches[name], key) - swept
                                       - (Len(caches'[name].entries) - 1)
                                  ELSE 0]
    /\ UNCHANGED <<now, pc, pend, manager, gets, level>>

\* clear_all(); last.evicted tells how many entries the caches held
ClearAll ==
    /\ pc = "idle"
    /\ caches' = ManagerClearAll(caches)
    /\ gets' = [n \in Names |-> 0]
    /\ last' = [NoOp EXCEPT !.op = "clear_all",
                            !.evicted = TotalEntries(caches)]
    /\ UNCHANGED <<now, pc, pend, manager, level>>

\* shutdown(); last.evicted tells how many entries the caches held
Shutdown ==
    /\ pc = "idle"
    /\ caches' = ManagerShutdown(caches)
    /\ gets' = [n \in DOMAIN caches' |-> 0]
    /\ last' = [NoOp EXCEPT !.op = "shutdown",
                            !.evicted = TotalEntries(caches)]
    /\ UNCHANGED <<now, pc, pend, manager, level>>

NextManager ==
    \/ \E g \in ManagerGets : MGet(g.name, g.key, g.default)
    \/ \E p \in ManagerPuts : MPut(p.name, p.key, p.value, p.ttl)
    \/ \E n \in ManagerNames, lim \in Limits, policy \in CreatePolicies,
          ttl \in CreateTtls :
           CreateCache(n, lim.max_size, lim.max_memory, policy, ttl)
    \/ ClearAll
    \/ Shutdown
    \/ Tick

SpecManager == InitManager /\ [][NextManager]_vars

-----------------------------------------------------------------------------
(* SpecUpdate: the manager after construction, its host loop calling       *)
(* update() while collaborators put and get, the clock advancing by about  *)
(* one sweep interval at a time.  For update, last.ok tells whether the    *)
(* sweep ran, last.swept how many entries it removed, over all caches, and *)
(* last.collected whether it called gc.collect().                          *)

\* The clock of these runs stops at MaxClock seconds.
MaxClock == 122

\* seconds between two moments at which the manager is called
ClockSteps == {GcInterval, GcInterval + 1}

\* the put calls the collaborators make, on a cache with a default ttl of
\* 5 seconds and on one with none: the ttl argument left out or 5 seconds
UpdatePuts ==
    {[name |-> "collision_groups", key |-> "a", value |-> Other(1), ttl |-> None],
     [name |-> "level_data", key |-> "a", value |-> Surface(3, 3), ttl |-> 5],
     [name |-> "level_data", key |-> "b", value |-> Other(1), ttl |-> None]}

\* the get calls they make
UpdateGets ==
    {[name |-> "collision_groups", key |-> "a"],
     [name |-> "level_data", key |-> "a"],
     [name |-> "level_data", key |-> "b"]}

\* update()
Update ==
    /\ pc = "idle"
    /\ IF SweepDue(now, manager.last_gc_time)
       THEN /\ caches' = RunGc(caches, now)
            /\ manager' = [manager EXCEPT !.last_gc_time = now]
            /\ last' = [NoOp EXCEPT
                           !.op = "update", !.ok = TRUE,
                           !.swept = TotalEntries(caches) - TotalEntries(caches'),
                           !.collected = GcCollectDue(caches')]
       ELSE /\ last' = [NoOp EXCEPT !.op = "update"]
            /\ UNCHANGED <<caches, manager>>
    /\ UNCHANGED <<now, pc, pend, gets, level>>

\* time passes between two calls
Advance(d) ==
    /\ pc = "idle"
    /\ now + d <= MaxClock
    /\ now' = now + d
    /\ last' = [NoOp EXCEPT !.op = "advance"]
    /\ UNCHANGED <<caches, pc, pend, manager, gets, level>>

NextUpdate ==
    \/ \E p \in UpdatePuts : MPut(p.name, p.key, p.value, p.ttl)
    \/ \E g \in UpdateGets : MGet(g.name, g.key, NoValue)
    \/ Update
    \/ \E d \in ClockSteps : Advance(d)

SpecUpdate == InitManager /\ [][NextUpdate]_vars

-----------------------------------------------------------------------------
(* SpecPressure: the manager after construction, its host loop calling     *)
(* update() while collaborators cache surfaces of a whole level: one value *)
(* can be larger than the max_memory of its cache (put keeps it, as the    *)
(* only entry), and larger than the 200 MB above which the sweep calls     *)
(* gc.collect().                                                           *)

\* the put calls: a surface of 256,000,000 bytes in a cache of 50 MB, one of
\* 64,000,000 bytes that expires after 5 seconds in a cache of 20 MB, and a
\* value of 64 bytes
PressurePuts ==
    {[name |-> "tile_surfaces", key |-> "a", value |-> Surface(8000, 8000),
      ttl |-> None],
     [name |-> "level_data", key |-> "a", value |-> Surface(4000, 4000),
      ttl |-> 5],
     [name |-> "collision_groups", key |-> "a", value |-> Other(1),
      ttl |-> None]}

NextPressure ==
    \/ \E p \in PressurePuts : MPut(p.name, p.key, p.value, p.ttl)
    \/ Update
    \/ \E d \in ClockSteps : Advance(d)

SpecPressure == InitManager /\ [][NextPressure]_vars

-----------------------------------------------------------------------------
(* SpecStats: the manager after construction, a collaborator using the     *)
(* level_data cache while a debug overlay reads the statistics: of one     *)
(* cache (through get_cache), of the manager, the total memory.  `last`    *)
(* keeps what the call returned in last.stats.                             *)

\* A cache of these runs counts at most MaxRequests hits and misses.
MaxRequests == 3

\* the put calls: an entry that expires after 1 second and one that does not
StatsPuts ==
    {[name |-> "level_data", key |-> "a", value |-> Other(1), ttl |-> 1],
     [name |-> "level_data", key |-> "b", value |-> Surface(3, 3), ttl |-> None]}

\* the names given to get_cache: a registered one and one that is not
StatsNames == {"level_data", "missing"}

\* get_cache(name).get_stats(), for a registered name
GetStats(name) ==
    /\ pc = "idle"
    /\ name \in Names
    /\ LET got == CacheGetStats(caches[name])
       IN  /\ caches' = [caches EXCEPT ![name] = got.cache]
           /\ last' = [NoOp EXCEPT !.op = "get_stats", !.name = name,
                                   !.stats = got.ret]
    /\ UNCHANGED <<now, pc, pend, manager, gets, level>>

\* CacheManager.get_stats()
ManagerStats ==
    /\ pc = "idle"
    /\ LET got == ManagerGetStats(caches)
       IN  /\ caches' = got.caches
           /\ last' = [NoOp EXCEPT !.op = "manager_get_stats",
                                   !.stats = got.ret]
    /\ UNCHANGED <<now, pc, pend, manager, gets, level>>

\* get_total_memory()
TotalMemory ==
    /\ pc = "idle"
    /\ last' = [NoOp EXCEPT !.op = "get_total_memory",
                            !.stats = GetTotalMemory(caches)]
    /\ UNCHANGED <<caches, now, pc, pend, manager, gets, level>>

\* get_cache(name)
GetCacheOf(name) ==
    /\ pc = "idle"
    /\ last' = [NoOp EXCEPT !.op = "get_cache", !.name = name,
                            !.stats = GetCache(caches, name)]
    /\ UNCHANGED <<caches, now, pc, pend, manager, gets, level>>

\* clear_cache(name)
ClearCache(name) ==
    /\ pc = "idle"
    /\ caches' = ManagerClearCache(caches, name)
    /\ gets' = [n \in Names |-> IF n = name THEN 0 ELSE gets[n]]
    /\ last' = [NoOp EXCEPT !.op = "clear_cache", !.name = name,
                            !.evicted = IF name \in Names
                                        THEN Len(caches[name].entries) ELSE 0]
    /\ UNCHANGED <<now, pc, pend, manager, level>>

NextStats ==
    \/ \E p \in StatsPuts : MPut(p.name, p.key, p.value, p.ttl)
    \/ \E p \in StatsPuts : MGetWithin(MaxRequests, p.name, p.key, NoValue)
    \/ \E n \in StatsNames : n \in Names /\ GetStats(n)
    \/ ManagerStats
    \/ TotalMemory
    \/ \E n \in StatsNames : GetCacheOf(n)
    \/ ClearCache("level_data")
    \/ Tick

SpecStats == InitManager /\ [][NextStats]_vars

-----------------------------------------------------------------------------
(* SpecIsolation: the manager after construction, two collaborators each   *)
(* using a cache of their own: the level_data cache, and a small cache     *)
(* "extra" that its user registers, in which puts evict.  Entries of both  *)
(* expire as the clock advances.  For a put, last.ttl is the ttl passed.   *)

\* the put calls: on level_data an entry that expires after 1 second; on
\* extra (2 entries, 120 bytes, default ttl 1) two keys of 64 bytes each,
\* which do not fit together
IsolationPuts ==
    {[name |-> "level_data", key |-> "a", value |-> Other(1), ttl |-> 1],
     [name |-> "extra", key |-> "a", value |-> Other(1), ttl |-> None],
     [name |-> "extra", key |-> "b", value |-> Other(2), ttl |-> None]}

\* the policy of the cache "extra"
IsolationPolicies == {"lfu"}

\* get_cache(name).remove(key), for a registered name; last.ok is what
\* remove returned
RemoveFrom(name, key) ==
    /\ pc = "idle"
    /\ name \in Names
    /\ LET removed == CacheRemove(caches[name], key)
       IN  /\ caches' = [caches EXCEPT ![name] = removed.cache]
           /\ last' = [NoOp EXCEPT !.op = "remove", !.name = name,
                                   !.key = key, !.ok = removed.ret]
    /\ UNCHANGED <<now, pc, pend, manager, gets, level>>

NextIsolation ==
    \/ \E lim \in Limits, policy \in IsolationPolicies, ttl \in CreateTtls :
           "extra" \notin Names
           /\ CreateCache("extra", lim.max_size, lim.max_memory, policy, ttl)
    \/ \E p \in IsolationPuts : MPut(p.name, p.key, p.value, p.ttl)
    \/ \E p \in IsolationPuts : MGet(p.name, p.key, NoValue)
    \/ \E p \in IsolationPuts : p.name \in Names /\ RemoveFrom(p.name, p.key)
    \/ \E n \in ManagerNames : ClearCache(n)
    \/ Tick

SpecIsolation == InitManager /\ [][NextIsolation]_vars

-----------------------------------------------------------------------------
(* SpecHits: the manager after construction and a collaborator that        *)
(* registers a cache "extra" of some policy and reads what it has put in   *)
(* it, and a key it never put, while entries expire.                       *)

\* the policy given to create_cache
HitPolicies == {"lru", "lfu", "fifo", "ttl"}

\* the put calls: 64 bytes under the default ttl of the cache (1 second), 36
\* bytes with a ttl of 5 seconds; both fit in the cache
HitPuts ==
    {[name |-> "extra", key |-> "a", value |-> Other(1), ttl |-> None],
     [name |-> "extra", key |-> "c", value |-> Surface(3, 3), ttl |-> 5]}

NextHits ==
    \/ \E lim \in Limits, policy \in HitPolicies, ttl \in CreateTtls :
           "extra" \notin Names
           /\ CreateCache("extra", lim.max_size, lim.max_memory, policy, ttl)
    \/ \E p \in HitPuts : MPut(p.name, p.key, p.value, p.ttl)
    \/ \E k \in Keys : MGetWithin(MaxRequests, "extra", k, NoValue)
    \/ Tick

SpecHits == InitManager /\ [][NextHits]_vars

-----------------------------------------------------------------------------
(* SpecEvict: the manager after construction and a collaborator that       *)
(* registers a small cache "extra" (2 entries, 120 bytes, default ttl 1    *)
(* second) and fills it beyond both limits, reading in between, while      *)
(* entries expire.                                                         *)

\* the policy given to create_cache
EvictPolicies == {"lru", "lfu", "fifo", "ttl"}

\* the put calls: 64 bytes under the default ttl, 36 bytes and 64 bytes
\* with a ttl of 5 seconds (64 + 64 bytes do not fit together), and a value
\* of 144 bytes, more than the cache may hold
EvictPuts ==
    {[name |-> "extra", key |-> "a", value |-> Other(1), ttl |-> None],
     [name |-> "extra", key |-> "b", value |-> Surface(3, 3), ttl |-> 5],
     [name |-> "extra", key |-> "c", value |-> Other(2), ttl |-> 5],
     [name |-> "extra", key |-> "a",
      value |-> List(<<Surface(4, 4), Surface(4, 5)>>), ttl |-> 5]}

NextEvict ==
    \/ \E lim \in Limits, policy \in EvictPolicies, ttl \in CreateTtls :
           "extra" \notin Names
           /\ CreateCache("extra", lim.max_size, lim.max_memory, policy, ttl)
    \/ \E p \in EvictPuts : MPut(p.name, p.key, p.value, p.ttl)
    \/ \E k \in Keys : MGet("extra", k, NoValue)
    \/ Tick

SpecEvict == InitManager /\ [][NextEvict]_vars

-----------------------------------------------------------------------------
(* SpecTtl: the manager after construction and a collaborator that         *)
(* registers a cache "extra" with or without a default ttl and puts with   *)
(* no ttl, with a ttl of 0 and with a ttl of 2 seconds, reading in         *)
(* between, while time passes.                                             *)

\* default_ttl given to create_cache
TtlDefaults == {None, 1}

\* the ttl arguments of put: not passed, zero, two seconds
TtlPuts ==
    {[name |-> "extra", key |-> "a", value |-> Other(1), ttl |-> None],
     [name |-> "extra", key |-> "a", value |-> Other(2), ttl |-> 0],
     [name |-> "extra", key |-> "b", value |-> Surface(3, 3), ttl |-> 2]}

NextTtl ==
    \/ \E lim \in Limits, ttl \in TtlDefaults :
           "extra" \notin Names
           /\ CreateCache("extra", lim.max_size, lim.max_memory, "ttl", ttl)
    \/ \E p \in TtlPuts : MPut(p.name, p.key, p.value, p.ttl)
    \/ \E k \in {"a", "b"} : MGetWithin(MaxRequests, "extra", k, NoValue)
    \/ Tick

SpecTtl == InitManager /\ [][NextTtl]_vars

-----------------------------------------------------------------------------
(* SpecAccessor: the process from its start, before anything has asked for *)
(* the manager.  Collaborators call get_cache_manager() at any time, and   *)
(* use the manager once it exists; the host loop calls update() and, at    *)
(* exit, shutdown().  For get_cache_manager, last.ok tells whether the     *)
(* manager existed before the call.                                        *)

\* get_cache_manager(): return CacheManager()
GetCacheManager ==
    /\ pc = "idle"
    /\ LET made == Construct(manager, caches, now)
       IN  /\ manager' = made.manager
           /\ caches' = made.caches
    /\ gets' = IF manager.initialized THEN gets
               ELSE [n \in DOMAIN caches' |-> 0]
    /\ last' = [NoOp EXCEPT !.op = "get_cache_manager",
                            !.ok = (manager.instances > 0)]
    /\ UNCHANGED <<now, pc, pend, level>>

\* the state of the process at its start
InitProcess ==
    /\ caches = [n \in {} |-> NewCache(n, 0, 0, "lru", None)]
    /\ now = 0
    /\ last = NoOp
    /\ pc = "idle"
    /\ pend = NoPend
    /\ manager = NoManager
    /\ gets = [n \in DOMAIN caches |-> 0]
    /\ level = NoLevel

NextAccessor ==
    \/ GetCacheManager
    \/ manager.initialized /\ \E p \in UpdatePuts :
           MPut(p.name, p.key, p.value, p.ttl)
    \/ manager.initialized /\ \E g \in UpdateGets :
           MGet(g.name, g.key, NoValue)
    \/ manager.initialized /\ Update
    \/ manager.initialized /\ Shutdown
    \/ \E d \in ClockSteps : Advance(d)

SpecAccessor == InitProcess /\ [][NextAccessor]_vars

-----------------------------------------------------------------------------
(* Level (models/world/level.py): a level caches the sprite groups it      *)
(* collects from its layers in the manager's collision_groups cache, under *)
(* keys made of its id, with a ttl of 5 seconds.  A layer is kept as the   *)
(* number of tiles in each of its groups; _trigger_tiles maps a trigger id *)
(* to the number of tiles of that trigger.                                 *)

\* the kinds of tile group a level caches under a fixed key
TileKinds == {"collidable", "hazard", "platform"}

\* the trigger ids the game scene asks for: one that tiles of the map have,
\* one that no tile has
TriggerIds == {"door", "lever"}

\* ttl=5.0 of the puts of a level
GroupTtl == 5

\* Level(level_id): no layer yet
NewLevel(level_id) == [level_id |-> level_id, layers |-> <<>>]

\* self._cache_key_prefix = f"level_{level_id}"
CacheKeyPrefix(lv) == "level_" \o lv.level_id

\* f"{self._cache_key_prefix}_collidable", _hazard, _platform
KindKey(lv, kind) == CacheKeyPrefix(lv) \o "_" \o kind

\* f"{self._cache_key_prefix}_trigger_{trigger_id}"
TriggerKey(lv, trigger_id) == CacheKeyPrefix(lv) \o "_trigger_" \o trigger_id

\* the layers _create_tile_layers makes of the map of the game: one visible
\* layer with 2 collidable tiles, 1 platform tile and 1 tile of trigger
\* "door"
TmxLayers ==
    [n \in {"ground"} |->
        [visible |-> TRUE, collidable |-> 2, hazard |-> 0, platform |-> 1,
         trigger_tiles |-> [t \in {"door"} |-> 1]]]

\* layer.collidable_tiles / hazard_tiles / platform_tiles
TilesOfKind(layer, kind) ==
    CASE kind = "collidable" -> layer.collidable
      [] kind = "hazard"     -> layer.hazard
      [] kind = "platform"   -> layer.platform

\* layer.get_trigger_tiles(trigger_id): an empty group for an unknown id
TriggerTilesOf(layer, trigger_id) ==
    IF trigger_id \in DOMAIN layer.trigger_tiles
    THEN layer.trigger_tiles[trigger_id] ELSE 0

\* the number of sprites in the group a getter collects: the tiles of the
\* visible layers, of a kind or (kind "trigger") of a trigger id
RECURSIVE Collected(_, _, _)
Collected(layers, kind, trigger_id) ==
    IF DOMAIN layers = {} THEN 0
    ELSE LET n == CHOOSE n \in DOMAIN layers : TRUE
             rest == [m \in DOMAIN layers \ {n} |-> layers[m]]
             tiles == IF kind = "trigger"
                      THEN TriggerTilesOf(layers[n], trigger_id)
                      ELSE TilesOfKind(layers[n], kind)
         IN  (IF layers[n].visible THEN tiles ELSE 0)
             + Collected(rest, kind, trigger_id)

\* the body shared by the cached getters: get from collision_groups; on
\* None collect the group and put it with ttl=5.0; the registry afterwards
\* and the group returned
CachedGroup(reg, cache_key, sprites, t) ==
    LET got == ManagerGet(reg, "collision_groups", cache_key, NoValue, t)
    IN  IF got.ret = NoValue
        THEN [caches |-> ManagerPut(got.caches, "collision_groups", cache_key,
                                    Group(sprites), GroupTtl, t),
              ret |-> Group(sprites)]
        ELSE got

\* cache.remove(key) for every key of a list
RECURSIVE RemoveKeys(_, _)
RemoveKeys(c, keys) ==
    IF keys = {} THEN c
    ELSE LET k == CHOOSE k \in keys : TRUE
         IN  RemoveKeys(CacheRemove(c, k).cache, keys \ {k})

\* _invalidate_collision_cache(): the three fixed keys and one key for
\* every trigger id in _trigger_tiles of every layer in self._layers are
\* removed from collision_groups
InvalidateCollisionCache(lv, reg) ==
    LET cache_keys ==
            {KindKey(lv, kind) : kind \in TileKinds}
            \cup UNION {{TriggerKey(lv, id) :
                            id \in DOMAIN lv.layers[n].trigger_tiles} :
                        n \in DOMAIN lv.layers}
    IN  IF GetCache(reg, "collision_groups") # <<>>
        THEN [reg EXCEPT !["collision_groups"] = RemoveKeys(@, cache_keys)]
        ELSE reg

\* Level.cleanup(): layer.cleanup() on every layer, self._layers.clear(),
\* and then _invalidate_collision_cache(); the level and the registry
\* afterwards
LevelCleanup(lv, reg) ==
    LET cleared == [lv EXCEPT !.layers = <<>>]
    IN  [level |-> cleared, caches |-> InvalidateCollisionCache(cleared, reg)]

\* Level.load_from_tmx(): _create_tile_layers() stores the layers of the map
\* under their names, and then _invalidate_collision_cache()
LevelLoad(lv, reg, tmx) ==
    LET loaded ==
            [lv EXCEPT !.layers =
                [n \in DOMAIN lv.layers \cup DOMAIN tmx |->
                    IF n \in DOMAIN tmx THEN tmx[n] ELSE lv.layers[n]]]
    IN  [level |-> loaded, caches |-> InvalidateCollisionCache(loaded, reg)]

-----------------------------------------------------------------------------
(* SpecLevel: the game scene with its Level "1": it loads the map, asks    *)
(* for collision and trigger groups while the game runs, and cleans the    *)
(* level up when the scene ends (a level is loaded again after that).      *)
(* `last` keeps the call, the cache key it used and the group returned;    *)
(* for cleanup and load, evicted is the number of entries removed.         *)

\* the requests collision_groups has counted
Requests == caches["collision_groups"].hits + caches["collision_groups"].misses

\* a cached getter that uses cache_key and collects `sprites`
GetGroup(op, cache_key, sprites) ==
    /\ pc = "idle"
    /\ Requests < MaxRequests
    /\ LET got == CachedGroup(caches, cache_key, sprites, now)
       IN  /\ caches' = got.caches
           /\ last' = [NoOp EXCEPT !.op = op, !.name = "collision_groups",
                                   !.key = cache_key, !.ret = got.ret]
    /\ gets' = [gets EXCEPT !["collision_groups"] = @ + 1]
    /\ UNCHANGED <<now, pc, pend, manager, level>>

\* get_all_collidable_tiles(), get_all_hazard_tiles(),
\* get_all_platform_tiles()
GetAllTiles(kind) ==
    GetGroup("get_all_tiles", KindKey(level, kind),
             Collected(level.layers, kind, ""))

\* get_all_trigger_tiles(trigger_id)
GetAllTriggerTiles(trigger_id) ==
    GetGroup("get_all_trigger_tiles", TriggerKey(level, trigger_id),
             Collected(level.layers, "trigger", trigger_id))

\* load_from_tmx(tmx_path)
LoadFromTmx ==
    /\ pc = "idle"
    /\ LET done == LevelLoad(level, caches, TmxLayers)
       IN  /\ level' = done.level
           /\ caches' = done.caches
    /\ last' = [NoOp EXCEPT !.op = "load_from_tmx",
                            !.evicted = TotalEntries(caches)
                                        - TotalEntries(caches')]
    /\ UNCHANGED <<now, pc, pend, manager, gets>>

\* cleanup()
Cleanup ==
    /\ pc = "idle"
    /\ LET done == LevelCleanup(level, caches)
       IN  /\ level' = done.level
           /\ caches' = done.caches
    /\ last' = [NoOp EXCEPT !.op = "cleanup",
                            !.evicted = TotalEntries(caches)
                                        - TotalEntries(caches')]
    /\ UNCHANGED <<now, pc, pend, manager, gets>>

\* the state after CacheManager() and Level("1")
InitLevel ==
    /\ caches = DefaultCaches
    /\ now = 0
    /\ last = NoOp
    /\ pc = "idle"
    /\ pend = NoPend
    /\ manager = NewManager(0)
    /\ gets = [n \in DOMAIN caches |-> 0]
    /\ level = NewLevel("1")

NextLevel ==
    \/ LoadFromTmx
    \/ \E kind \in TileKinds : GetAllTiles(kind)
    \/ \E id \in TriggerIds : GetAllTriggerTiles(id)
    \/ Cleanup
    \/ Tick

SpecLevel == InitLevel /\ [][NextLevel]_vars

-----------------------------------------------------------------------------
(* SceneManager (controllers/scene_manager.py): when a scene is left,      *)
(* _cleanup_scene clears the collision groups of a game scene and trims    *)
(* the tile surfaces if the caches hold much memory.                       *)

\* the aggregate memory above which tile_surfaces is trimmed, and the memory
\* it is trimmed to
TrimThreshold == 150 * 1024 * 1024

TrimTarget == 30 * 1024 * 1024

\* type(scene).__name__.lower().replace("scene", "") of the scene classes
SceneTypes == {"menu", "settings", "game", "dialog"}

\* while tile_cache._total_memory > 30 MB: if not _evict_one(): break
RECURSIVE TrimTiles(_)
TrimTiles(c) ==
    IF c.total_memory > TrimTarget
    THEN LET evicted == EvictOne(c)
         IN  IF evicted.ret THEN TrimTiles(evicted.cache) ELSE c
    ELSE c

\* a cleanup that measures the memory before it clears the collision groups
CleanupScene_MeasuresBeforeClearing(reg, scene_type) ==
    IF scene_type \in {"menu", "settings"} THEN reg
    ELSE IF scene_type = "game"
    THEN LET cleared == IF GetCache(reg, "collision_groups") # <<>>
                        THEN [reg EXCEPT !["collision_groups"] = CacheClear(@)]
                        ELSE reg
         IN  IF GetTotalMemory(reg) > TrimThreshold
                /\ GetCache(cleared, "tile_surfaces") # <<>>
             THEN [cleared EXCEPT !["tile_surfaces"] = TrimTiles(@)]
             ELSE cleared
    ELSE reg

\* _cleanup_scene(scene): the registry afterwards
CleanupScene(reg, scene_type) ==
    IF scene_type \in {"menu", "settings"} THEN reg
    ELSE IF scene_type = "game"
    THEN LET cleared == IF GetCache(reg, "collision_groups") # <<>>
                        THEN [reg EXCEPT !["collision_groups"] = CacheClear(@)]
                        ELSE reg
         IN  IF GetTotalMemory(cleared) > TrimThreshold
                /\ GetCache(cleared, "tile_surfaces") # <<>>
             THEN [cleared EXCEPT !["tile_surfaces"] = TrimTiles(@)]
             ELSE cleared
    ELSE reg

-----------------------------------------------------------------------------
(* SpecScene: the manager after construction, the renderer caching tile    *)
(* surfaces of 16 MB, a sound of 100 or 144 MB and a collision value of    *)
(* 16 MB being cached (a value larger than the max_memory of its cache is  *)
(* kept as the only entry), tile surfaces being read, and scenes of every  *)
(* type being left.  For a cleanup, last.name is the scene type,           *)
(* last.evicted the number of tile surfaces evicted, last.swept the number *)
(* of collision entries dropped and last.collected tells whether           *)
(* gc.collect() was called.                                                *)

ScenePuts ==
    {[name |-> "tile_surfaces", key |-> "a", value |-> Surface(2000, 2000)],
     [name |-> "tile_surfaces", key |-> "b", value |-> Surface(2000, 2000)],
     [name |-> "tile_surfaces", key |-> "c", value |-> Surface(2000, 2000)],
     [name |-> "sounds", key |-> "a", value |-> Surface(5000, 5000)],
     [name |-> "sounds", key |-> "a", value |-> Surface(6000, 6000)],
     [name |-> "collision_groups", key |-> "a", value |-> Surface(2000, 2000)]}

\* _cleanup_scene(scene)
CleanupSceneOf(scene_type) ==
    /\ pc = "idle"
    /\ caches' = CleanupScene(caches, scene_type)
    /\ gets' = [n \in Names |->
                  IF n = "collision_groups" /\ scene_type = "game"
                  THEN 0 ELSE gets[n]]
    /\ last' = [NoOp EXCEPT
                   !.op = "cleanup_scene", !.name = scene_type,
                   !.evicted = Len(caches["tile_surfaces"].entries)
                               - Len(caches'["tile_surfaces"].entries),
                   !.swept = Len(caches["collision_groups"].entries)
                             - Len(caches'["collision_groups"].entries),
                   !.collected = (scene_type \notin {"menu", "settings"})]
    /\ UNCHANGED <<now, pc, pend, manager, level>>

NextScene ==
    \/ \E p \in ScenePuts : MPut(p.name, p.key, p.value, None)
    \/ \E k \in Keys : MGet("tile_surfaces", k, NoValue)
    \/ \E t \in SceneTypes : CleanupSceneOf(t)

SpecScene == InitManager /\ [][NextScene]_vars

-----------------------------------------------------------------------------
(* SpecShutdown: the manager after construction, in a process that goes on *)
(* after shutdown(): collaborators still ask for the manager, put and get, *)
(* the host loop still calls update() and clear_all(), and a collaborator  *)
(* may register "level_data" again with create_cache.                      *)

\* the put calls: on a default cache, the ttl left out or 5 seconds
ShutdownPuts ==
    {[name |-> "level_data", key |-> "a", value |-> Other(1), ttl |-> None],
     [name |-> "level_data", key |-> "b", value |-> Surface(3, 3), ttl |-> 5]}

NextShutdown ==
    \/ GetCacheManager
    \/ \E p \in ShutdownPuts : MPut(p.name, p.key, p.value, p.ttl)
    \/ \E k \in {"a", "b"} : MGet("level_data", k, NoValue)
    \/ Update
    \/ ClearAll
    \/ Shutdown
    \/ \E lim \in Limits :
           CreateCache("level_data", lim.max_size, lim.max_memory, "lru", None)
    \/ \E d \in ClockSteps : Advance(d)

SpecShutdown == InitManager /\ [][NextShutdown]_vars

-----------------------------------------------------------------------------
(* Properties.                                                             *)

RECURSIVE SumOfSizes(_)
SumOfSizes(entries) ==
    IF entries = <<>> THEN 0
    ELSE Head(entries).size + SumOfSizes(Tail(entries))

KeySeq(c) == [i \in 1..Len(c.entries) |-> c.entries[i].key]

\* the TTL of an entry has elapsed at time t
Elapsed(entry, t) == entry.ttl # None /\ t - entry.created_at > entry.ttl

\* In a put of `key` that takes c to d: entry i of c is a victim of the
\* eviction by policy (it was not expired, it is not the key's old entry,
\* it is gone) / is an entry that stays.
IsVictim(c, d, key, i, t) ==
    /\ c.entries[i].key # key
    /\ ~Elapsed(c.entries[i], t)
    /\ ~HasKey(d, c.entries[i].key)

IsSurvivor(c, d, key, i) ==
    /\ c.entries[i].key # key
    /\ HasKey(d, c.entries[i].key)

\* C1: in every state between operations, each cache's total_memory is the
\* sum of the stored sizes of its entries (and a stored size is the
\* estimate of the stored value).
C1_TotalMemoryIsSumOfSizes ==
    \A n \in Names :
        /\ caches[n].total_memory = SumOfSizes(caches[n].entries)
        /\ \A i \in 1..Len(caches[n].entries) :
               caches[n].entries[i].size = EstimateSize(caches[n].entries[i].value)

\* a put that evicted a live entry has returned and two entries are stored
C1_Witness ==
    /\ last.op = "put"
    /\ last.evicted >= 1
    /\ Len(Main.entries) = 2
    /\ Main.total_memory = 100

\* C2: when a put has just returned, the cache holds at most max_size
\* entries.
C2_EntriesWithinMaxSize ==
    last.op = "put" => Len(Main.entries) <= Main.max_size

\* a put into a full cache has returned: one entry was evicted, the cache
\* is full again
C2_Witness ==
    /\ last.op = "put"
    /\ last.swept = 0
    /\ last.evicted = 1
    /\ Len(Main.entries) = Main.max_size

\* C3: after put(key, value) the cache's total_memory is at most
\* max_memory, unless the size of value alone exceeds max_memory.
C3_MemoryWithinMaxMemory ==
    last.op = "put" =>
        \/ Main.total_memory <= Main.max_memory
        \/ EstimateSize(last.value) > Main.max_memory

\* a put has returned whose memory loop evicted a live entry (fewer entries
\* are left than the entry-count loop leaves) and the ceiling is respected
C3_Witness ==
    /\ last.op = "put"
    /\ last.swept = 0
    /\ last.evicted >= 1
    /\ Len(Main.entries) < Main.max_size
    /\ Main.total_memory <= Main.max_memory
    /\ Main.total_memory > 0

\* C4: a get of a key whose entry's TTL has elapsed returns the default,
\* leaves the key absent and takes the entry's size off total_memory.
C4_ExpiredGetReturnsDefault ==
    [][(/\ last'.op = "get"
        /\ HasKey(Main, last'.key)
        /\ Elapsed(EntryOf(Main, last'.key), now)) =>
           /\ last'.ret = NoValue
           /\ ~HasKey(caches'["main"], last'.key)
           /\ caches'["main"].total_memory
                  = Main.total_memory - EntryOf(Main, last'.key).size]_vars

\* a get has returned the default after removing the expired entry it found
C4_Witness ==
    /\ last.op = "get"
    /\ last.swept = 1
    /\ last.ret = NoValue
    /\ Main.misses = 1

\* C10: after put(key, value) the key is stored, once, with that value,
\* also when the value's size alone exceeds max_memory.
C10_PutStoresTheValue ==
    last.op = "put" =>
        /\ HasKey(Main, last.key)
        /\ EntryOf(Main, last.key).value = last.value
        /\ Cardinality({i \in 1..Len(Main.entries) :
                           Main.entries[i].key = last.key}) = 1

\* a put of a value larger than max_memory has returned and the value is
\* stored
C10_Witness ==
    /\ last.op = "put"
    /\ EstimateSize(last.value) > Main.max_memory
    /\ HasKey(Main, last.key)

\* C5 (as claimed): each loop of the eviction pass stops as soon as
\* _evict_one returns false: after such a call the entry-count loop's
\* condition no longer holds, and the memory loop has been left.
C5_LoopsStopWhenNothingEvicted ==
    /\ (pc = "size_loop" /\ pend.evicted = "no") =>
           Len(caches[pend.target].entries) < caches[pend.target].max_size
    /\ pc = "mem_loop" => pend.evicted # "no"

\* the put step / the successful get step that `last` reports in the next
\* state
PutStep == last'.op = "put"

HitStep ==
    /\ last'.op = "get"
    /\ HasKey(Main, last'.key)
    /\ ~Elapsed(EntryOf(Main, last'.key), now)

\* the keys of c in order, key taken out
KeySeqWithout(c, key) ==
    LET other(k) == k # key IN SelectSeq(KeySeq(c), other)

\* C6 (amended): in an LRU cache the victim of a put is at the front of the
\* recency order: it precedes every entry that stays and its last_accessed
\* is no later than theirs (entries with equal last_accessed go in the
\* order of their last access, whichever was inserted first); a successful
\* get moves its entry to the end of the order and moves no other.
C6_LruEvictsLeastRecentlyUsed ==
    [][Main.policy = "lru" =>
          /\ PutStep =>
                 \A i, j \in 1..Len(Main.entries) :
                     (/\ IsVictim(Main, caches'["main"], last'.key, i, now)
                      /\ IsSurvivor(Main, caches'["main"], last'.key, j)) =>
                         /\ i < j
                         /\ Main.entries[i].last_accessed <= Main.entries[j].last_accessed
          /\ HitStep =>
                 KeySeq(caches'["main"])
                     = Append(KeySeqWithout(Main, last'.key), last'.key)]_vars

\* an LRU put has evicted one live entry while an entry that had been read
\* stays
C6_Witness ==
    /\ Main.policy = "lru"
    /\ last.op = "put"
    /\ last.swept = 0
    /\ last.evicted = 1
    /\ Len(Main.entries) = 2
    /\ Main.entries[1].access_count = 1

\* C6 (as claimed): the LRU victim has the least last_accessed, and among
\* entries with the same last_accessed it is the oldest inserted.
C6_LruTiesGoToOldestInserted ==
    [][(Main.policy = "lru" /\ PutStep) =>
          \A i, j \in 1..Len(Main.entries) :
              (/\ IsVictim(Main, caches'["main"], last'.key, i, now)
               /\ IsSurvivor(Main, caches'["main"], last'.key, j)) =>
                  /\ Main.entries[i].last_accessed <= Main.entries[j].last_accessed
                  /\ Main.entries[i].last_accessed = Main.entries[j].last_accessed =>
                         Main.entries[i].created_at <= Main.entries[j].created_at]_vars

\* C7: in an LFU cache the victim of a put has an access_count no greater
\* than that of any entry that stays, and where the counts are equal the
\* victim was inserted before the one that stays; gets do not reorder.
C7_LfuEvictsMinAccessCount ==
    [][Main.policy = "lfu" =>
          /\ PutStep =>
                 \A i, j \in 1..Len(Main.entries) :
                     (/\ IsVictim(Main, caches'["main"], last'.key, i, now)
                      /\ IsSurvivor(Main, caches'["main"], last'.key, j)) =>
                         /\ Main.entries[i].access_count <= Main.entries[j].access_count
                         /\ Main.entries[i].access_count = Main.entries[j].access_count =>
                                /\ i < j
                                /\ Main.entries[i].created_at <= Main.entries[j].created_at
          /\ HitStep => KeySeq(caches'["main"]) = KeySeq(Main)]_vars

\* an LFU put has evicted the one of two entries that had never been read
\* and kept the one that had
C7_Witness ==
    /\ Main.policy = "lfu"
    /\ last.op = "put"
    /\ last.swept = 0
    /\ last.evicted = 1
    /\ Len(Main.entries) = 2
    /\ Main.entries[1].access_count = 1

\* C8: in a FIFO cache the victim of a put was inserted before every entry
\* that stays; a get changes neither the order of the entries nor their
\* created_at.
C8_FifoEvictsOldestInserted ==
    [][Main.policy = "fifo" =>
          /\ PutStep =>
                 \A i, j \in 1..Len(Main.entries) :
                     (/\ IsVictim(Main, caches'["main"], last'.key, i, now)
                      /\ IsSurvivor(Main, caches'["main"], last'.key, j)) =>
                         /\ i < j
                         /\ Main.entries[i].created_at <= Main.entries[j].created_at
          /\ HitStep =>
                 /\ KeySeq(caches'["main"]) = KeySeq(Main)
                 /\ \A i \in 1..Len(Main.entries) :
                        caches'["main"].entries[i].created_at
                            = Main.entries[i].created_at]_vars

\* a FIFO put has evicted one live entry after a successful get, and the
\* oldest entry that stays has never been read
C8_Witness ==
    /\ Main.policy = "fifo"
    /\ last.op = "put"
    /\ last.swept = 0
    /\ last.evicted = 1
    /\ Main.hits = 1
    /\ Len(Main.entries) = 2
    /\ Main.entries[1].access_count = 0

\* C9: a cache with the TTL policy, or with an unrecognised policy string,
\* holds the same entries in the same order, and the same total_memory,
\* hits and misses, as a FIFO cache given the same operations.
C9_OtherPoliciesMatchFifo ==
    \A n \in Names \ {"main"} :
        /\ caches[n].policy \in OtherPolicies
        /\ Main.policy = "fifo"
        /\ caches[n].entries = Main.entries
        /\ caches[n].total_memory = Main.total_memory
        /\ caches[n].hits = Main.hits
        /\ caches[n].misses = Main.misses

\* both caches have evicted a live entry in the same put, after a
\* successful get
C9_Witness ==
    /\ {caches[n].policy : n \in Names} = {"fifo"} \cup OtherPolicies
    /\ last.op = "put"
    /\ last.swept = 0
    /\ last.evicted = 1
    /\ \A n \in Names : caches[n].hits = 1 /\ Len(caches[n].entries) = 2

\* C11 (as claimed): a cache registered by create_cache never has a
\* non-positive max_size or max_memory (the call failed and registered
\* nothing, or a default limit replaced the bad one); a put on a registered
\* cache is never left in its entry-count loop with the condition true and
\* nothing to evict; between operations total_memory is the sum of the
\* entries' sizes.
C11_InvalidLimitsFailOrFallBack ==
    \A n \in Names :
        /\ caches[n].max_size >= 1
        /\ caches[n].max_memory >= 1
        /\ (pc = "size_loop" /\ pend.target = n) =>
               ~(caches[n].entries = <<>> /\ 0 >= caches[n].max_size)
        /\ pc = "idle" => caches[n].total_memory = SumOfSizes(caches[n].entries)

\* the sizes of the entries of c, other than key's, that are gone from d
GoneSize(c, d, key) ==
    LET gone[i \in 0..Len(c.entries)] ==
            IF i = 0 THEN 0
            ELSE gone[i - 1]
                 + (IF c.entries[i].key # key /\ ~HasKey(d, c.entries[i].key)
                    THEN c.entries[i].size ELSE 0)
    IN  gone[Len(c.entries)]

\* C12: a put of a key that is present replaces its entry: afterwards the
\* key has exactly one entry, a new one holding the new value; the entry
\* count has not grown; total_memory has lost the old entry's size (and the
\* sizes of the other entries removed) and gained the new one's; a get that
\* follows at once returns the new value.
C12_PutReplacesTheOldEntry ==
    [][(PutStep /\ HasKey(Main, last'.key)) =>
          LET c == Main
              d == caches'["main"]
              key == last'.key
          IN  /\ Cardinality({i \in 1..Len(d.entries) : d.entries[i].key = key}) = 1
              /\ EntryOf(d, key).value = last'.value
              /\ EntryOf(d, key).access_count = 0
              /\ EntryOf(d, key).created_at = now
              /\ Len(d.entries) <= Len(c.entries)
              /\ d.total_memory = c.total_memory - EntryOf(c, key).size
                                      - GoneSize(c, d, key)
                                      + EstimateSize(last'.value)
              /\ CacheGet(d, key, NoValue, now).ret = last'.value]_vars

\* a put has replaced the entry of a key in a full cache, after a successful
\* get, without evicting or sweeping anything
C12_Witness ==
    /\ last.op = "put"
    /\ last.ok
    /\ last.swept = 0
    /\ last.evicted = 0
    /\ Len(Main.entries) = Main.max_size
    /\ Main.total_memory = 100
    /\ Main.hits = 1

\* C13: a get adds one to misses and leaves hits alone when the key is
\* absent or its entry's TTL has elapsed, adds one to hits and leaves
\* misses alone otherwise; put, remove, the sweep and the clock leave both
\* alone; hits + misses is the number of get calls made on the cache since
\* it was created or last cleared.
C13_GetCountsOneHitOrOneMiss ==
    [][LET c == Main
           d == caches'["main"]
       IN  /\ last'.op = "get" =>
                  IF HasKey(c, last'.key) /\ ~Elapsed(EntryOf(c, last'.key), now)
                  THEN d.hits = c.hits + 1 /\ d.misses = c.misses
                  ELSE d.misses = c.misses + 1 /\ d.hits = c.hits
           /\ last'.op \in {"put", "remove", "sweep", "tick"} =>
                  d.hits = c.hits /\ d.misses = c.misses
           /\ d.hits + d.misses = gets'["main"]]_vars

\* a put has evicted a live entry of a cache on which one get was made, a
\* miss
C13_Witness ==
    /\ last.op = "put"
    /\ last.evicted = 1
    /\ Main.hits = 0
    /\ Main.misses = 1
    /\ gets["main"] = 1

\* C14: remove(key) returns true exactly when the key was present, its
\* entry expired or not; then the key is gone, the other entries are as
\* they were, in order, and total_memory has lost the entry's size; when
\* the key was absent the cache is left as it was; hits and misses never
\* change.
C14_RemoveReportsWhatItRemoved ==
    [][last'.op = "remove" =>
          LET c == Main
              d == caches'["main"]
              key == last'.key
          IN  /\ last'.ok = HasKey(c, key)
              /\ HasKey(c, key) =>
                     /\ ~HasKey(d, key)
                     /\ d.entries = WithoutIndex(c.entries, IndexOf(c, key))
                     /\ d.total_memory = c.total_memory - EntryOf(c, key).size
                     /\ d.hits = c.hits /\ d.misses = c.misses
              /\ ~HasKey(c, key) => d = c]_vars

\* remove has returned true for an entry whose TTL had elapsed, and another
\* entry stays
C14_Witness ==
    /\ last.op = "remove"
    /\ last.ok
    /\ last.swept = 1
    /\ Len(Main.entries) = 1
    /\ Main.total_memory > 0

\* C15: clear() leaves the cache with no entries and total_memory, hits
\* and misses at zero, whatever it held, and leaves name, max_size,
\* max_memory, policy and default_ttl as they were.
C15_ClearEmptiesAndKeepsConfiguration ==
    [][last'.op = "clear" =>
          LET c == Main
              d == caches'["main"]
          IN  /\ d.entries = <<>>
              /\ d.total_memory = 0
              /\ d.hits = 0
              /\ d.misses = 0
              /\ d.name = c.name
              /\ d.max_size = c.max_size
              /\ d.max_memory = c.max_memory
              /\ d.policy = c.policy
              /\ d.default_ttl = c.default_ttl]_vars

\* clear has emptied a full cache on which a get had been counted
C15_Witness ==
    /\ last.op = "clear"
    /\ last.evicted = Main.max_size
    /\ last.ok
    /\ Main.entries = <<>>
    /\ Main.hits + Main.misses = 0

\* C16: a manager get on a name that is not registered returns the default
\* it was given, a manager put on such a name does nothing: no cache is
\* registered and no cache changes; on a registered name each changes that
\* cache, and returns, as Cache.get / Cache.put called on it would, and
\* leaves the other caches alone.
C16_ManagerForwardsOrDoesNothing ==
    [][LET name == last'.name
           key == last'.key
       IN  /\ last'.op = "mget" =>
                  IF name \in Names
                  THEN LET got == CacheGet(caches[name], key, last'.value, now)
                       IN  /\ caches' = [caches EXCEPT ![name] = got.cache]
                           /\ last'.ret = got.ret
                  ELSE /\ caches' = caches
                       /\ last'.ret = last'.value
           /\ last'.op = "mput" =>
                  IF name \in Names
                  THEN \E p \in ManagerPuts :
                          /\ p.name = name /\ p.key = key /\ p.value = last'.value
                          /\ caches' = [caches EXCEPT
                                           ![name] = CachePut(@, key, p.value, p.ttl, now)]
                  ELSE caches' = caches
           /\ last'.op \in {"mget", "mput"} =>
                  DOMAIN caches' = DOMAIN caches /\ manager' = manager]_vars

\* a manager get on a name that is not registered has returned the caller's
\* default, while a registered cache holds an entry and has counted a get
C16_Witness ==
    /\ last.op = "mget"
    /\ last.name \notin Names
    /\ last.ret = Other(0)
    /\ caches["level_data"].entries # <<>>
    /\ caches["level_data"].hits + caches["level_data"].misses = 1

\* the sizes of the entries of all the caches of a registry
SumOfAllSizes(reg) ==
    LET count[S \in SUBSET DOMAIN reg] ==
            IF S = {} THEN 0
            ELSE LET n == CHOOSE n \in S : TRUE
                 IN  SumOfSizes(reg[n].entries) + count[S \ {n}]
    IN  count[DOMAIN reg]

\* C17: between operations get_total_memory() is the sum, over the caches
\* registered at that moment and no other, of the sizes of their entries,
\* which is the sum of their total_memory.
C17_TotalMemoryOfRegisteredCaches ==
    /\ GetTotalMemory(caches) = SumOfAllSizes(caches)
    /\ \A n \in Names :
           GetTotalMemory(caches)
               = caches[n].total_memory
                 + GetTotalMemory([m \in Names \ {n} |-> caches[m]])

\* create_cache has replaced a cache that held entries while a cache
\* registered later holds one: the total is what that cache holds
C17_Witness ==
    /\ last.op = "create"
    /\ last.ok
    /\ last.evicted >= 1
    /\ last.name = "level_data"
    /\ "extra" \in Names
    /\ GetTotalMemory(caches) = 36

\* C18: after create_cache the cache registered under the name is a new,
\* empty one with the limits, policy and default ttl of the call, its
\* total_memory, hits and misses zero, and a manager get of any key returns
\* the default.
C18_CreateCacheReplaces ==
    last.op = "create" =>
        /\ last.name \in Names
        /\ \E lim \in Limits, policy \in CreatePolicies, ttl \in CreateTtls :
               caches[last.name]
                   = NewCache(last.name, lim.max_size, lim.max_memory, policy, ttl)
        /\ caches[last.name].entries = <<>>
        /\ caches[last.name].total_memory = 0
        /\ caches[last.name].hits = 0
        /\ caches[last.name].misses = 0
        /\ \A k \in Keys :
               ManagerGet(caches, last.name, k, Other(0), now).ret = Other(0)

\* create_cache has replaced a default cache that held two entries and had
\* counted a get
C18_Witness ==
    /\ last.op = "create"
    /\ last.ok
    /\ last.evicted = 2
    /\ last.swept = 1
    /\ caches[last.name].policy = "fifo"

\* C19 (as claimed): update() runs the sweep, and sets _last_gc_time to
\* now, when now - _last_gc_time >= _gc_interval, the elapsed time equal to
\* the interval included; otherwise it changes nothing.
C19_SweepsOnceIntervalHasElapsed ==
    [][last'.op = "update" =>
          IF now - manager.last_gc_time >= GcInterval
          THEN /\ caches' = RunGc(caches, now)
               /\ manager'.last_gc_time = now
          ELSE /\ caches' = caches
               /\ manager' = manager]_vars

\* C19 (amended): update() runs the sweep, and sets _last_gc_time to now,
\* when now - _last_gc_time > _gc_interval; when the elapsed time is the
\* interval exactly, or less, it changes nothing; so _last_gc_time moves
\* only by more than the interval, and only to now.
C19_SweepsAfterIntervalHasElapsed ==
    [][/\ last'.op = "update" =>
              IF now - manager.last_gc_time > GcInterval
              THEN /\ last'.ok
                   /\ caches' = [n \in Names |-> EvictExpired(caches[n], now)]
                   /\ manager'.last_gc_time = now
              ELSE /\ ~last'.ok
                   /\ caches' = caches
                   /\ manager' = manager
       /\ manager'.last_gc_time # manager.last_gc_time =>
              /\ last'.op = "update"
              /\ manager'.last_gc_time = now
              /\ manager'.last_gc_time - manager.last_gc_time > GcInterval]_vars

\* after a sweep, update() has been called when exactly the interval had
\* elapsed, and has done nothing
C19_Witness ==
    /\ last.op = "update"
    /\ ~last.ok
    /\ manager.last_gc_time > 0
    /\ now - manager.last_gc_time = GcInterval

\* C20: an update() that runs the sweep leaves in every registered cache
\* exactly the entries whose TTL has not elapsed, unchanged and in their
\* order, takes the sizes of the others off total_memory, and changes no
\* counter, no configuration and not the set of registered caches.
C20_SweepRemovesExactlyTheExpired ==
    [][(last'.op = "update" /\ last'.ok) =>
          /\ DOMAIN caches' = DOMAIN caches
          /\ \A n \in Names :
                 LET c == caches[n]
                     d == caches'[n]
                     live(e) == ~Elapsed(e, now)
                 IN  /\ \A i \in 1..Len(d.entries) : ~Elapsed(d.entries[i], now)
                     /\ d.entries = SelectSeq(c.entries, live)
                     /\ d.total_memory
                            = c.total_memory
                              - (SumOfSizes(c.entries) - SumOfSizes(d.entries))
                     /\ d.hits = c.hits
                     /\ d.misses = c.misses
                     /\ [d EXCEPT !.entries = <<>>, !.total_memory = 0]
                            = [c EXCEPT !.entries = <<>>, !.total_memory = 0]]_vars

\* a sweep run by update() has removed expired entries from two caches and
\* left the live entry of a cache that had counted a hit
C20_Witness ==
    /\ last.op = "update"
    /\ last.ok
    /\ last.swept = 2
    /\ caches["collision_groups"].entries = <<>>
    /\ Len(caches["level_data"].entries) = 1
    /\ caches["level_data"].hits = 1

\* the sizes of the entries of all the caches of reg whose TTL has not
\* elapsed at t
LiveMemory(reg, t) ==
    SumOfAllSizes([n \in DOMAIN reg |->
        [reg[n] EXCEPT !.entries =
            SelectSeq(reg[n].entries, LAMBDA e : ~Elapsed(e, t))]])

\* C21 as the specification states it: when update() sweeps and the memory
\* of all the caches is above the 200 MB ceiling, it reclaims cache memory
\* beyond the expired entries: less memory is held afterwards than the
\* entries that had not expired take.
C21_SweepAboveCeilingReclaimsCacheMemory ==
    [][(last'.op = "update" /\ last'.ok
            /\ LiveMemory(caches, now) > 200 * 1024 * 1024)
       => GetTotalMemory(caches') < LiveMemory(caches, now)]_vars

\* C21, amended: when update() sweeps and the memory of all the caches,
\* the expired entries removed, is above the 200 MB ceiling (and only
\* then), it forces a run of the interpreter's garbage collector; no
\* entry that has not expired is removed from any cache, so the caches
\* hold as much memory as their unexpired entries take, above the ceiling
\* or not.
C21_SweepAboveCeilingForcesCollectionOnly ==
    [][last'.op = "update"
       => /\ last'.collected
                <=> (last'.ok /\ LiveMemory(caches, now) > 200 * 1024 * 1024)
          /\ last'.ok =>
                /\ DOMAIN caches' = DOMAIN caches
                /\ \A n \in DOMAIN caches :
                       caches'[n].entries =
                           SelectSeq(caches[n].entries,
                                     LAMBDA e : ~Elapsed(e, now))
                /\ GetTotalMemory(caches') = LiveMemory(caches, now)]_vars

\* an update swept one expired entry, called gc.collect(), and left a
\* cache of 50 MB holding 256,000,000 bytes, the registry above the ceiling
C21_Witness ==
    /\ last.op = "update" /\ last.collected /\ last.swept = 1
    /\ caches["tile_surfaces"].total_memory = 256000000
    /\ caches["tile_surfaces"].total_memory > caches["tile_surfaces"].max_memory
    /\ GetTotalMemory(caches) > 200 * 1024 * 1024

\* C22: clear_all() leaves every registered cache empty, with total_memory,
\* hits and misses zero, registered as before with its limits, policy and
\* default ttl; shutdown() leaves no cache registered: cache_count is 0,
\* get_total_memory() is 0 and get_cache(name) is None for every name.
C22_ClearAllEmptiesShutdownUnregisters ==
    [][/\ last'.op = "clear_all" =>
            /\ DOMAIN caches' = DOMAIN caches
            /\ \A n \in DOMAIN caches :
                   caches'[n] = [caches[n] EXCEPT !.entries = <<>>,
                                                  !.total_memory = 0,
                                                  !.hits = 0, !.misses = 0]
       /\ last'.op = "shutdown" =>
            /\ Cardinality(DOMAIN caches') = 0
            /\ GetTotalMemory(caches') = 0
            /\ \A n \in DOMAIN caches \cup ManagerNames :
                   GetCache(caches', n) = <<>>]_vars

\* a shutdown of a registry whose caches held two entries or more
C22_Witness ==
    /\ last.op = "shutdown"
    /\ last.evicted >= 2
    /\ DOMAIN caches = {}

\* C23: every call of get_cache_manager() (of CacheManager()) returns the
\* one manager object, made by the first call, which sets it up with the
\* default caches; a later call changes nothing: the registry, the entries
\* and counters of every cache and the time of the last sweep are as they
\* were before the call.
C23_AccessorReturnsTheOneManager ==
    [][last'.op = "get_cache_manager"
       => /\ manager'.instances = 1
          /\ manager'.initialized
          /\ manager.instances = 0 =>
                /\ caches' = DefaultCaches
                /\ manager'.last_gc_time = now
          /\ manager.instances > 0 =>
                /\ caches' = caches
                /\ manager' = manager]_vars

\* a call on a manager that exists, whose _last_gc_time is 61 and whose
\* caches hold an entry
C23_Witness ==
    /\ last.op = "get_cache_manager"
    /\ last.ok
    /\ manager.last_gc_time = 61
    /\ TotalEntries(caches) >= 1

\* the calls that only read
ReadOnlyOps ==
    {"get_stats", "manager_get_stats", "get_total_memory", "get_cache"}

\* C24: Cache.get_stats(), CacheManager.get_stats(), get_total_memory() and
\* get_cache() only read: no cache's entries, their order and metadata,
\* total_memory, hits or misses change, expired entries stay, and the
\* registry and the time of the last sweep are as before.
C24_StatisticsOnlyRead ==
    [][last'.op \in ReadOnlyOps
       => /\ caches' = caches
          /\ manager' = manager]_vars

\* the manager's statistics were read while a cache held an expired entry
\* and had counted a request: the entry is still there
C24_Witness ==
    /\ last.op = "manager_get_stats"
    /\ \E i \in 1..Len(caches["level_data"].entries) :
           Elapsed(caches["level_data"].entries[i], now)
    /\ caches["level_data"].hits + caches["level_data"].misses >= 1
    /\ last.stats.caches["level_data"].size = Len(caches["level_data"].entries)

\* C25: Cache.get_stats() reports size = number of entries, memory =
\* total_memory, the hits and the misses counted, and hit_rate = hits /
\* (hits + misses), 0 when no request was counted; the division never
\* raises ZeroDivisionError.
C25_StatsReportTheCounters ==
    [][last'.op = "get_stats"
       => LET c == caches[last'.name]
              st == last'.stats
          IN  /\ st.size = Len(c.entries)
              /\ st.memory = c.total_memory
              /\ st.hits = c.hits
              /\ st.misses = c.misses
              /\ ~st.hit_rate.raised
              /\ st.hit_rate.den > 0
              /\ st.hit_rate.num * (c.hits + c.misses)
                     = c.hits * st.hit_rate.den
              /\ c.hits + c.misses = 0 => st.hit_rate.num = 0]_vars

\* statistics of a cache with one hit and two misses: the hit rate is 1/3
C25_Witness ==
    /\ last.op = "get_stats"
    /\ last.stats.hits = 1
    /\ last.stats.misses = 2
    /\ last.stats.hit_rate = [raised |-> FALSE, num |-> 1, den |-> 3]
    /\ last.stats.size >= 1

\* the operations addressed to one cache
CacheOps == {"mget", "mput", "remove", "clear_cache"}

\* C26: a get, put, remove or clear addressed to one cache, evictions of
\* the put included, changes no other registered cache: its entries, their
\* order, total_memory, hits and misses stay, and the same caches are
\* registered; what becomes of the addressed cache, the entry evicted
\* included, is decided by that cache's own state, the arguments and the
\* time.
C26_OperationsStayInTheirCache ==
    [][(last'.op \in CacheOps /\ last'.name \in DOMAIN caches)
       => LET n == last'.name
              c == caches[n]
          IN  /\ DOMAIN caches' = DOMAIN caches
              /\ \A m \in DOMAIN caches \ {n} : caches'[m] = caches[m]
              /\ last'.op = "mget" =>
                    caches'[n] = CacheGet(c, last'.key, last'.value, now).cache
              /\ last'.op = "mput" =>
                    caches'[n] = CachePut(c, last'.key, last'.value,
                                          last'.ttl, now)
              /\ last'.op = "remove" =>
                    caches'[n] = CacheRemove(c, last'.key).cache
              /\ last'.op = "clear_cache" => caches'[n] = CacheClear(c)]_vars

\* a put in the cache "extra", which had counted a request, evicted the
\* entry that had not expired (two do not fit) while level_data held an
\* expired entry, which is still there
C26_Witness ==
    /\ last.op = "mput" /\ last.name = "extra" /\ last.key = "b"
    /\ "extra" \in DOMAIN caches
    /\ KeySeq(caches["extra"]) = <<"b">>
    /\ caches["extra"].hits = 1
    /\ last.swept = 0 /\ last.evicted = 1
    /\ Len(caches["level_data"].entries) = 1
    /\ Elapsed(caches["level_data"].entries[1], now)

\* entry e is one of the entries of cache c
Holds(c, e) == \E j \in 1..Len(c.entries) : c.entries[j] = e

\* C27: expiry is lazy.  Time passing changes no cache; an entry whose TTL
\* has elapsed stays in its cache as it is, counted in total_memory, until
\* a get of its key, a put on its cache or a sweep of the manager takes it
\* out; a get of its key returns the default and takes it out; and its key
\* holds another entry only after a put of that key.
C27_ExpiredEntriesStayUntilRemoved ==
    [][/\ last'.op = "advance" =>
            /\ caches' = caches
            /\ GetTotalMemory(caches') = GetTotalMemory(caches)
       /\ \A n \in DOMAIN caches : \A i \in 1..Len(caches[n].entries) :
            LET e == caches[n].entries[i]
                onKey == last'.name = n /\ last'.key = e.key
            IN  Elapsed(e, now) =>
                  /\ caches[n].total_memory >= e.size
                  /\ \/ Holds(caches'[n], e)
                     \/ last'.op = "mget" /\ onKey
                     \/ last'.op = "mput" /\ last'.name = n
                     \/ last'.op = "update" /\ last'.ok
                  /\ (last'.op = "mget" /\ onKey) =>
                        /\ last'.ret = last'.value
                        /\ ~HasKey(caches'[n], e.key)
                  /\ (HasKey(caches'[n], e.key) /\ ~Holds(caches'[n], e)) =>
                        last'.op = "mput" /\ onKey]_vars

\* two minutes on, an entry that expired after 5 seconds is still in
\* level_data, beside one that was read since, and still counted in the
\* total memory
C27_Witness ==
    /\ now >= 120
    /\ last.op = "mget" /\ last.name = "level_data" /\ last.key = "b"
    /\ Len(caches["level_data"].entries) = 2
    /\ \E i \in 1..2 :
           /\ caches["level_data"].entries[i].key = "a"
           /\ caches["level_data"].entries[i].created_at = 0
           /\ Elapsed(caches["level_data"].entries[i], now)
    /\ caches["level_data"].hits = 1
    /\ GetTotalMemory(caches) >= 100

\* C28: every put first removes every expired entry of its cache, whether
\* or not the cache has room: after the put the cache holds no entry that
\* was expired when the put started, nor any entry that is expired now.
C28_PutRemovesEveryExpiredEntry ==
    [][(last'.op = "mput" /\ last'.name \in DOMAIN caches)
       => LET c == caches[last'.name]
              d == caches'[last'.name]
          IN  /\ \A i \in 1..Len(c.entries) :
                     Elapsed(c.entries[i], now) =>
                        /\ ~Holds(d, c.entries[i])
                        /\ c.entries[i].key # last'.key =>
                              ~HasKey(d, c.entries[i].key)
              /\ \A j \in 1..Len(d.entries) : ~Elapsed(d.entries[j], now)]_vars

\* a put of key b in level_data, which holds 5 entries and 20 MB and held
\* one entry of 36 bytes, expired: that entry is gone
C28_Witness ==
    /\ last.op = "mput" /\ last.name = "level_data" /\ last.key = "b"
    /\ last.swept = 1 /\ last.evicted = 0
    /\ KeySeq(caches["level_data"]) = <<"b">>
    /\ caches["level_data"].max_size = 5
    /\ caches["level_data"].total_memory = 64

\* the entries of c whose key is not `key`, in order
EntriesWithout(c, key) ==
    SelectSeq(c.entries, LAMBDA e : e.key # key)

\* C29: a get adds no entry and removes none but the requested key's own
\* expired entry, and total_memory changes by that removal only.  A hit
\* changes hits, the entry's last_accessed and access_count and, in an
\* LRU cache, its position (it becomes the last); under the other
\* policies the order stays.  A miss on an absent key changes misses only.
C29_GetChangesOnlyItsOwnEntry ==
    [][(last'.op = "mget" /\ last'.name \in DOMAIN caches)
       => LET c == caches[last'.name]
              d == caches'[last'.name]
              k == last'.key
              e == EntryOf(c, k)
              config(x) == <<x.name, x.max_size, x.max_memory, x.policy,
                             x.default_ttl>>
          IN  /\ config(d) = config(c)
              /\ EntriesWithout(d, k) = EntriesWithout(c, k)
              /\ ~HasKey(c, k) => d = [c EXCEPT !.misses = @ + 1]
              /\ (HasKey(c, k) /\ Elapsed(e, now)) =>
                    /\ d.entries = EntriesWithout(c, k)
                    /\ d.total_memory = c.total_memory - e.size
                    /\ d.hits = c.hits /\ d.misses = c.misses + 1
              /\ (HasKey(c, k) /\ ~Elapsed(e, now)) =>
                    /\ d.total_memory = c.total_memory
                    /\ d.hits = c.hits + 1 /\ d.misses = c.misses
                    /\ HasKey(d, k)
                    /\ EntryOf(d, k) =
                          [e EXCEPT !.last_accessed = now,
                                    !.access_count = e.access_count + 1]
                    /\ KeySeq(d) = IF c.policy = "lru"
                                   THEN Append(KeySeqWithout(c, k), k)
                                   ELSE KeySeq(c)]_vars

\* a hit, later than the put, on the first of two entries of a cache that
\* is not LRU: the entry is still the first
C29_Witness ==
    /\ last.op = "mget" /\ last.name = "extra"
    /\ "extra" \in DOMAIN caches
    /\ caches["extra"].policy # "lru"
    /\ caches["extra"].hits >= 1
    /\ Len(caches["extra"].entries) = 2
    /\ caches["extra"].entries[1].key = last.key
    /\ caches["extra"].entries[1].access_count >= 1
    /\ caches["extra"].entries[1].last_accessed = now
    /\ caches["extra"].entries[1].created_at < now

\* the keys under which the level caches groups
LevelKeys ==
    {KindKey(level, kind) : kind \in TileKinds}
    \cup {TriggerKey(level, id) : id \in TriggerIds}

\* C30: after Level.cleanup() or Level.load_from_tmx() the collision_groups
\* cache holds no entry under a key of this level, the groups cached by
\* get_all_trigger_tiles(trigger_id) included.
C30_CleanupInvalidatesEveryGroupOfTheLevel ==
    [][last'.op \in {"cleanup", "load_from_tmx"}
       => \A key \in LevelKeys :
             ~HasKey(caches'["collision_groups"], key)]_vars

\* C31: _cleanup_scene of a game scene clears collision_groups and, if the
\* caches then hold more than 150 MB, evicts from tile_surfaces, oldest use
\* first (it is an LRU cache), until it holds at most 30 MB or is empty,
\* and no further; total_memory stays the sum of the sizes of the entries
\* left; no other cache changes, and none at all for another scene.
C31_SceneCleanupTrimsTileSurfaces ==
    [][last'.op = "cleanup_scene"
       => IF last'.name = "game"
          THEN LET t == caches["tile_surfaces"]
                   d == caches'["tile_surfaces"]
                   k == Len(t.entries) - Len(d.entries)
                   after == GetTotalMemory(caches)
                            - caches["collision_groups"].total_memory
               IN  /\ caches'["collision_groups"] =
                         [caches["collision_groups"] EXCEPT
                             !.entries = <<>>, !.total_memory = 0,
                             !.hits = 0, !.misses = 0]
                   /\ \A n \in DOMAIN caches \
                               {"collision_groups", "tile_surfaces"} :
                          caches'[n] = caches[n]
                   /\ DOMAIN caches' = DOMAIN caches
                   /\ k >= 0
                   /\ d = [t EXCEPT
                              !.entries = SubSeq(t.entries, k + 1,
                                                 Len(t.entries)),
                              !.total_memory = SumOfSizes(d.entries)]
                   /\ after > 150 * 1024 * 1024 =>
                         /\ d.total_memory <= 30 * 1024 * 1024
                               \/ d.entries = <<>>
                         /\ k > 0 =>
                               SumOfSizes(SubSeq(t.entries, k, Len(t.entries)))
                                   > 30 * 1024 * 1024
                   /\ after <= 150 * 1024 * 1024 => k = 0
          ELSE caches' = caches]_vars

\* a game scene was left while a sound of 144 MB and three tile surfaces of
\* 16 MB were cached: two tile surfaces were evicted, the one used last is
\* left, and the collision entry was dropped
C31_Witness ==
    /\ last.op = "cleanup_scene" /\ last.name = "game"
    /\ last.evicted = 2 /\ last.swept = 1
    /\ Len(caches["tile_surfaces"].entries) = 1
    /\ caches["tile_surfaces"].entries[1].access_count = 1
    /\ caches["tile_surfaces"].total_memory = 16000000
    /\ caches["sounds"].total_memory = 144000000

\* In a put of `key` at time t that takes c to d: the entries of c that had
\* not expired and are not the key's own (the ones only an eviction by
\* policy removes), and those of them that are gone from d.
LiveOthers(c, key, t) ==
    {c.entries[i] : i \in {j \in 1..Len(c.entries) :
                              c.entries[j].key # key
                              /\ ~Elapsed(c.entries[j], t)}}

EvictedBy(c, d, key, t) == {e \in LiveOthers(c, key, t) : ~Holds(d, e)}

\* sum of the sizes of a set of entries
RECURSIVE SizeOfAll(_)
SizeOfAll(E) ==
    IF E = {} THEN 0
    ELSE LET e == CHOOSE e \in E : TRUE IN e.size + SizeOfAll(E \ {e})

\* C32: a put evicts an entry that has not expired, other than the key's
\* own, only when needed.  If, the key's old entry and the expired entries
\* taken out, the entries are fewer than max_size and their memory plus
\* the incoming size is at most max_memory, none is evicted; and if some
\* are evicted, then with one of them still in the cache the entries would
\* be max_size or the memory with the incoming size above max_memory.
C32_PutEvictsOnlyWhenNeeded ==
    [][(last'.op = "mput" /\ last'.name \in DOMAIN caches)
       => LET c == caches[last'.name]
              d == caches'[last'.name]
              live == LiveOthers(c, last'.key, now)
              gone == EvictedBy(c, d, last'.key, now)
              size == EstimateSize(last'.value)
          IN  /\ (Cardinality(live) < c.max_size
                     /\ SizeOfAll(live) + size <= c.max_memory)
                    => gone = {}
              /\ gone # {} =>
                    \/ Cardinality(live \ gone) + 1 >= c.max_size
                    \/ \E e \in gone :
                          SizeOfAll(live \ gone) + e.size + size
                              > c.max_memory]_vars

\* a put of 64 bytes into a cache of two entries, one of them expired and
\* the other of 36 bytes: the expired one swept, nothing evicted
C32_Witness ==
    /\ last.op = "mput" /\ last.name = "extra" /\ last.key = "c"
    /\ "extra" \in DOMAIN caches
    /\ last.swept = 1 /\ last.evicted = 0
    /\ KeySeq(caches["extra"]) = <<"b", "c">>
    /\ caches["extra"].total_memory = 100

\* C33: after a put of a value whose size alone is above max_memory the
\* cache holds exactly one entry, the new one, and total_memory is its
\* size; and a put of another key into a cache whose only entry is larger
\* than max_memory removes that entry.
C33_OversizedEntryStandsAlone ==
    [][(last'.op = "mput" /\ last'.name \in DOMAIN caches)
       => LET c == caches[last'.name]
              d == caches'[last'.name]
              size == EstimateSize(last'.value)
          IN  /\ size > c.max_memory
                    => /\ KeySeq(d) = <<last'.key>>
                       /\ d.entries[1].value = last'.value
                       /\ d.total_memory = size
              /\ (/\ Len(c.entries) = 1
                  /\ c.entries[1].size > c.max_memory
                  /\ c.entries[1].key # last'.key)
                    => /\ ~HasKey(d, c.entries[1].key)
                       /\ KeySeq(d) = <<last'.key>>
                       /\ d.total_memory = size]_vars

\* the 144 bytes put on "a" in a cache of 120 bytes that held "b" and "c",
\* neither expired: both evicted, the 144 bytes alone in the cache
C33_Witness ==
    /\ last.op = "mput" /\ last.name = "extra" /\ last.key = "a"
    /\ "extra" \in DOMAIN caches
    /\ EstimateSize(last.value) > caches["extra"].max_memory
    /\ last.swept = 0 /\ last.evicted = 2
    /\ KeySeq(caches["extra"]) = <<"a">>
    /\ caches["extra"].total_memory = 144

\* C34: a put of a key that is in a cache of exactly max_size entries, none
\* expired, whose other entries with the incoming size stay within
\* max_memory, evicts nothing: the other entries are all still there, as
\* they were, and the cache has the same keys after the put as before.
C34_ReputAtCapacityKeepsTheKeys ==
    [][(/\ last'.op = "mput" /\ last'.name \in DOMAIN caches
        /\ HasKey(caches[last'.name], last'.key)
        /\ Len(caches[last'.name].entries) = caches[last'.name].max_size
        /\ \A i \in 1..Len(caches[last'.name].entries) :
               ~Elapsed(caches[last'.name].entries[i], now)
        /\ SizeOfAll(LiveOthers(caches[last'.name], last'.key, now))
               + EstimateSize(last'.value) <= caches[last'.name].max_memory)
       => LET c == caches[last'.name]
              d == caches'[last'.name]
          IN  /\ {c.entries[i].key : i \in 1..Len(c.entries)}
                    = {d.entries[i].key : i \in 1..Len(d.entries)}
              /\ Len(d.entries) = c.max_size
              /\ \A e \in LiveOthers(c, last'.key, now) : Holds(d, e)]_vars

\* "b" put again, at second 1, in a cache of two entries that holds "c"
\* and "b" since second 0: both keys still there, "b" created anew
C34_Witness ==
    /\ last.op = "mput" /\ last.name = "extra" /\ last.key = "b"
    /\ "extra" \in DOMAIN caches
    /\ last.swept = 0 /\ last.evicted = 0
    /\ now = 1
    /\ KeySeq(caches["extra"]) = <<"c", "b">>
    /\ caches["extra"].max_size = 2
    /\ caches["extra"].entries[1].created_at = 0
    /\ caches["extra"].entries[2].created_at = 1

\* C35: the ttl of an entry runs from its creation by put and no get
\* extends it.  Only a put of the key gives an entry its created_at (the
\* time of the put) and its ttl; every other step leaves both as they
\* are on the entries that stay; and a get returns the value of an entry
\* only while the time since created_at is at most the ttl, however often
\* the entry has been read.
C35_TtlRunsFromThePut ==
    [][/\ \A n \in DOMAIN caches \cap DOMAIN caches' :
             \A k \in KeysOf(caches'[n]) :
                IF last'.op = "mput" /\ last'.name = n /\ last'.key = k
                THEN /\ EntryOf(caches'[n], k).created_at = now
                     /\ EntryOf(caches'[n], k).access_count = 0
                ELSE /\ HasKey(caches[n], k)
                     /\ EntryOf(caches'[n], k).created_at
                           = EntryOf(caches[n], k).created_at
                     /\ EntryOf(caches'[n], k).ttl
                           = EntryOf(caches[n], k).ttl
       /\ (last'.op = "mget" /\ last'.name \in DOMAIN caches)
             => LET c == caches[last'.name]
                    k == last'.key
                IN  IF HasKey(c, k) /\ ~Elapsed(EntryOf(c, k), now)
                    THEN last'.ret = EntryOf(c, k).value
                    ELSE /\ last'.ret = last'.value
                         /\ ~HasKey(caches'[last'.name], k)]_vars

\* "a", put with a ttl of 1 second and read with success since, is not
\* returned at second 2: the get returns the default and "a" is gone,
\* while "c", put with 5 seconds, is still there
C35_Witness ==
    /\ last.op = "mget" /\ last.name = "extra" /\ last.key = "a"
    /\ "extra" \in DOMAIN caches
    /\ last.ret = NoValue
    /\ now = 2
    /\ caches["extra"].hits = 2 /\ caches["extra"].misses = 1
    /\ KeySeq(caches["extra"]) = <<"c">>
    /\ caches["extra"].entries[1].access_count = 0

\* C36: a ttl passed to put takes precedence over the default_ttl of the
\* cache, whatever its value, 0 included: the entry has the ttl passed, and
\* the default_ttl only if none was passed; and an entry that has neither
\* never expires, every get of it returns its value.
C36_ExplicitTtlAlwaysTakesPrecedence ==
    [][/\ (last'.op = "mput" /\ last'.name \in DOMAIN caches)
             => EntryOf(caches'[last'.name], last'.key).ttl
                   = IF last'.ttl # None
                     THEN last'.ttl
                     ELSE caches[last'.name].default_ttl
       /\ (/\ last'.op = "mget" /\ last'.name \in DOMAIN caches
           /\ HasKey(caches[last'.name], last'.key)
           /\ EntryOf(caches[last'.name], last'.key).ttl = None)
             => last'.ret = EntryOf(caches[last'.name], last'.key).value]_vars

\* C37: a put of a key the cache holds creates a fresh entry: access_count
\* 0, created_at and last_accessed the time of the put, and under every
\* policy the last place in the order.  In an LFU cache such an entry, not
\* read since, is the one a put of another key evicts when every other
\* entry has been read at least once.
C37_ReputCreatesAFreshEntry ==
    [][(last'.op = "mput" /\ last'.name \in DOMAIN caches)
       => LET c == caches[last'.name]
              d == caches'[last'.name]
              live == LiveOthers(c, last'.key, now)
              fresh == {e \in live : e.access_count = 0}
          IN  /\ last'.ok =>
                    /\ d.entries[Len(d.entries)] =
                          [key |-> last'.key, value |-> last'.value,
                           created_at |-> now, last_accessed |-> now,
                           access_count |-> 0,
                           ttl |-> d.entries[Len(d.entries)].ttl,
                           size |-> EstimateSize(last'.value)]
                    /\ \A i \in 1..(Len(d.entries) - 1) :
                          d.entries[i].key # last'.key
              /\ (/\ c.policy = "lfu"
                  /\ Cardinality(fresh) = 1
                  /\ last'.evicted >= 1)
                    => \A e \in fresh : ~Holds(d, e)]_vars

\* in an LFU cache "a", put again at second 1 behind "b", which has been
\* read: "a" is the last in the order, created at second 1 and never read
C37_Witness ==
    /\ last.op = "mput" /\ last.name = "extra" /\ last.key = "a"
    /\ last.ok
    /\ "extra" \in DOMAIN caches
    /\ caches["extra"].policy = "lfu"
    /\ now = 1
    /\ KeySeq(caches["extra"]) = <<"b", "a">>
    /\ caches["extra"].entries[1].access_count = 1
    /\ caches["extra"].entries[1].created_at = 0
    /\ caches["extra"].entries[2].access_count = 0
    /\ caches["extra"].entries[2].created_at = 1
    /\ caches["extra"].entries[2].last_accessed = 1

\* the calls of collaborators and host loop that register no cache
UnregisteringOps ==
    {"get_cache_manager", "mput", "mget", "update", "clear_all", "shutdown"}

=============================================================================
